---- MODULE Spec2Model ----
(***************************************************************************)
(* robotheus: the collection loop (Collector), the record tracker          *)
(* (RecordTracker) and the metrics sink (MetricsUpdater) as a state        *)
(* machine.                                                                *)
(*                                                                         *)
(*   Spec          Collector.run driving _collect_provider for one provider *)
(*   SpecMulti     Collector.run over two providers                         *)
(*   SpecMultiLive SpecMulti with every fetch and wait terminating          *)
(*   SpecTracker   a sequence of direct calls on one RecordTracker          *)
(*   SpecThreads   threads calling RecordTracker.is_new_usage concurrently  *)
(*   SpecSlow      SpecMulti with awaits of run() that are late             *)
(*   SpecShutdown  SpecMulti followed by Collector.close                    *)
(*   SpecOpenAI    Spec with OpenAIProvider.fetch_usage over its endpoints  *)
(*   SpecSink      a sequence of direct calls on one MetricsUpdater         *)
(*   SpecMain      __main__.main from the configuration to the exit         *)
(*   SpecDedup     a sequence of is_new calls on one DeduplicationStore     *)
(*   SpecResolve   tasks calling OpenAIProvider._resolve_project_name       *)
(*   SpecPair      a RecordTracker and a DeduplicationStore, same calls     *)
(***************************************************************************)
EXTENDS Integers, Sequences, FiniteSets, TLC

VARIABLES
    \* ---- time.time(), truncated to whole seconds
    clock,
    \* ---- Collector
    providers,            \* self._providers (sequence of provider names)
    last_scrape,          \* self._last_scrape
    stop_event,           \* self._stop_event.is_set()
    rpc,                  \* position of run(): start, loop, gather, wait, returned
    start_time, end_time, now,   \* locals of run() handed to _collect_provider
    tpc,                  \* per provider task: idle, fetch_usage, fetch_costs, done
    had_error,            \* per provider task: local had_error
    \* ---- RecordTracker
    seen,                 \* self._seen: key -> time_frame_start
    \* ---- MetricsUpdater
    provider_metrics,     \* keys of self._provider_metrics (registered providers)
    requests_total,       \* <<provider, model, project, api_key_id>> -> value
    tokens_total,         \* <<provider, model, project, api_key_id, direction>> -> value
    cost_usd_total,       \* <<provider, project>> -> value
    scrape_errors,        \* <<provider, stage>> -> value
    scrape_duration,      \* provider -> number of observations
    last_scrape_success,  \* provider -> timestamp
    \* ---- history of what the code did (never read by the code)
    cycle,                \* number of cycles run() has started
    usage_applied,        \* usage key -> number of update_usage calls made for it
    usage_calls,          \* this cycle: [record, now] -> update_usage calls made
    skipped,              \* this cycle: [kind, record, now] skipped as incomplete
    rejected,             \* this cycle: [record, now] is_new_usage returned False for
    cost_failed,          \* this cycle: [record, now] whose cost_delta call raised
    cost_reported,        \* cost key -> amount of its latest finalized report
    evictions,            \* key -> number of times evict_before removed it
    fetch_raised,         \* provider -> [usage, cost]: the fetch raised in this cycle
    snap,                 \* provider -> sink values when the task started
    stopped_at,           \* position of run() when stop() was called (none before)
    \* ---- direct calls on a RecordTracker (SpecTracker)
    tr_n,                 \* number of calls made
    tr_op,                \* the method last called
    tr_args,              \* its arguments
    tr_ret,               \* its result: True, False, int, or the exception raised
    tr_num,               \* the number returned when tr_ret is int
    tr_called,            \* usage arguments passed since their key was last evicted
    tr_cut,               \* key passed to is_new_* -> largest cutoff swept since (0: none)
    tr_again,             \* is_new_usage: tr_cut of its key before the call (-1: first call)
    tr_cost,              \* cost arguments -> [sum of the deltas returned, largest amount passed]
    \* ---- threads inside RecordTracker.is_new_usage (SpecThreads)
    lock,                 \* self._lock: the holding thread, or 0
    th_pc,                \* thread -> call, check, insert, release, done
    th_args,              \* thread -> the arguments it passes
    th_ret,               \* thread -> True or False ("none" until it returns)
    \* ---- Collector.close (SpecShutdown)
    close_pc,             \* position of close(): none, closing, returned, raised
    close_i,              \* index in self._providers of the provider closed next
    close_calls,          \* provider -> number of times its close() was called
    \* ---- OpenAIProvider.fetch_usage (SpecOpenAI)
    ep_cycle,             \* the cycle whose fetch_usage call is in progress or over
    ep_i,                 \* index in USAGE_ENDPOINTS of the endpoint answered next
    ep_records,           \* records of the endpoints that returned, in endpoint order
    ep_failed,            \* responses that made an endpoint task raise in this call
    \* ---- __main__.main (SpecMain)
    m_pc,                 \* position of main(): none, setup, check, serve, collector, run, exited
    http_server,          \* start_http_server has returned: /metrics is served
    exit_code,            \* exit status of the process (-1 while it runs)
    stderr,               \* what the interpreter wrote to stderr at exit
    \* ---- the prometheus CollectorRegistry and direct calls on a MetricsUpdater (SpecSink)
    registry,             \* names of the metric families registered
    sk_n,                 \* number of calls made
    sk_op,                \* the method last called
    sk_args,              \* its argument
    sk_ret,               \* None, or the exception it raised
    \* ---- DeduplicationStore (SpecDedup)
    d_seen,               \* self._seen: set of keys
    d_n,                  \* number of is_new calls made
    d_args,               \* arguments of the last call
    d_ret,                \* its result ("none" before the first call)
    d_passed,             \* the argument tuples passed before the last call
    \* ---- awaits that take long (SpecSlow)
    delays,               \* number of times an await of run() was late
    \* ---- OpenAIProvider._resolve_project_name (SpecResolve)
    rs_names,             \* self._project_names: project id -> name
    rs_lock,              \* self._project_lock: the holding task, or 0
    rs_pc,                \* task -> idle, lock_wait, request
    rs_id,                \* task -> the project id of its call
    rs_ret,               \* task -> what its last call returned ("none" before)
    rs_calls,             \* task -> number of calls it has made
    rs_requests,          \* project id -> number of project requests issued
    rs_failed,            \* project ids for which a request did not give a name
    rs_returns,           \* [id, name] pairs returned by the calls that are over
    rs_waited,            \* tasks whose call had to wait for the lock
    \* ---- history across cycles (never read by the code)
    skipped_before        \* [kind, record] skipped as incomplete in an earlier cycle

collVars == <<clock, providers, last_scrape, stop_event, rpc, start_time, end_time,
              now, tpc, had_error, provider_metrics, requests_total, tokens_total,
              cost_usd_total, scrape_errors, scrape_duration, last_scrape_success,
              cycle, usage_applied, usage_calls, skipped, rejected, cost_failed, cost_reported, evictions,
              fetch_raised, snap, stopped_at>>
trackVars == <<tr_n, tr_op, tr_args, tr_ret, tr_num, tr_called, tr_cut,
               tr_again, tr_cost>>
thrVars == <<lock, th_pc, th_args, th_ret>>
shutVars == <<close_pc, close_i, close_calls>>
openaiVars == <<ep_cycle, ep_i, ep_records, ep_failed>>
mainVars == <<m_pc, http_server, exit_code, stderr>>
sinkVars == <<registry, sk_n, sk_op, sk_args, sk_ret>>
dedupVars == <<d_seen, d_n, d_args, d_ret, d_passed>>
slowVars == <<delays>>
resolveVars == <<rs_names, rs_lock, rs_pc, rs_id, rs_ret, rs_calls, rs_requests,
                 rs_failed, rs_returns, rs_waited>>
histVars == <<skipped_before>>
otherVars == <<mainVars, sinkVars, dedupVars, slowVars, resolveVars, histVars>>
restVars == <<shutVars, openaiVars, otherVars>>
vars == <<collVars, seen, trackVars, thrVars, restVars>>

-----------------------------------------------------------------------------
(* Program constants and model bounds *)

\* Collector.__init__: scrape_interval_seconds default
Interval == 60
\* collector._DEFAULT_EVICTION_AGE_SECONDS
DEFAULT_EVICTION_AGE_SECONDS == 3600
\* the wall clock when run() is entered
T0 == 7200
\* cycles run() may start
MaxCycles == 2
\* records one fetch may return
MaxBatch == 2
\* direct calls made on one RecordTracker
MaxCalls == 3
\* threads calling is_new_usage at once
NThreads == 3
\* direct calls made on one MetricsUpdater
MaxSinkCalls == 4
\* is_new calls made on one DeduplicationStore
MaxDedupCalls == 3
\* awaits of one run() that are late
MaxDelays == 1
\* tasks calling _resolve_project_name at once
NResolvers == 2
\* calls of _resolve_project_name each task makes
MaxResolves == 2

-----------------------------------------------------------------------------
(* Finite maps with a growing domain (Python dict, prometheus label children) *)

EmptyMap == << >>

Put(f, k, v) == [x \in (DOMAIN f) \cup {k} |-> IF x = k THEN v ELSE f[x]]

Get(f, k, d) == IF k \in DOMAIN f THEN f[k] ELSE d

\* Counter.labels(...).inc(n): the child is created at 0 on first use
Inc(f, k, n) == Put(f, k, Get(f, k, 0) + n)

Range(s) == {s[i] : i \in DOMAIN s}

Max(a, b) == IF a >= b THEN a ELSE b

SeqsUpTo(S, n) == UNION {[1..m -> S] : m \in 0..n}

-----------------------------------------------------------------------------
(* models.py *)

UsageRecord(provider, model, project, api_key_id, input_tokens, output_tokens, request_count, time_frame_start, time_frame_end) ==
    [provider |-> provider, model |-> model, project |-> project,
     api_key_id |-> api_key_id, input_tokens |-> input_tokens,
     output_tokens |-> output_tokens, request_count |-> request_count,
     time_frame_start |-> time_frame_start, time_frame_end |-> time_frame_end]

CostRecord(provider, project, amount_usd, time_frame_start, time_frame_end) ==
    [provider |-> provider, project |-> project, amount_usd |-> amount_usd,
     time_frame_start |-> time_frame_start, time_frame_end |-> time_frame_end]

\* The records a provider may report, placed around T0:
\*   UOld    finalized, and older than the eviction age from the second cycle on
\*   URecent finalized at T0
\*   UNext   still open at T0, finalized one interval later
UOld == UsageRecord("openai", "gpt-4o", "proj", "key", 10, 5, 1,
                    T0 - DEFAULT_EVICTION_AGE_SECONDS,
                    T0 - DEFAULT_EVICTION_AGE_SECONDS + Interval)
URecent == UsageRecord("openai", "gpt-4o", "proj", "key", 100, 50, 2,
                       T0 - Interval, T0)
UNext == UsageRecord("openai", "gpt-4o", "proj", "key", 7, 3, 1,
                     T0, T0 + Interval)
UsageUniverse == {UOld, URecent, UNext}

\* amounts are in cents; CostLow and CostHigh report the same window
CostLow == CostRecord("openai", "proj", 5, T0 - Interval, T0)
CostHigh == CostRecord("openai", "proj", 8, T0 - Interval, T0)
CostNext == CostRecord("openai", "proj", 3, T0, T0 + Interval)
CostUniverse == {CostLow, CostHigh, CostNext}

\* what one await of a fetch yields: an exception, or a sequence of records
Raised == [raises |-> TRUE, records |-> << >>]
Returned(records) == [raises |-> FALSE, records |-> records]
UsageOutcomes == {Raised} \cup {Returned(b) : b \in SeqsUpTo(UsageUniverse, MaxBatch)}
CostOutcomes == {Raised} \cup {Returned(b) : b \in SeqsUpTo(CostUniverse, MaxBatch)}

-----------------------------------------------------------------------------
(* record_tracker.py *)

\* the attributes class RecordTracker defines
RecordTrackerAttrs ==
    {"__init__", "_make_usage_key", "_make_cost_key", "is_new_usage",
     "is_new_cost", "evict_before"}

\* f"{provider}|{model}|{project}|{api_key_id}|{time_frame_start}"
_make_usage_key(provider, model, project, api_key_id, time_frame_start) ==
    provider \o "|" \o model \o "|" \o project \o "|" \o api_key_id \o "|"
        \o ToString(time_frame_start)

\* f"{provider}|cost|{project}|{time_frame_start}"
_make_cost_key(provider, project, time_frame_start) ==
    provider \o "|cost|" \o project \o "|" \o ToString(time_frame_start)

\* faulty variant: the key is reported new without being remembered
is_new_usage_forgets(sn, provider, model, project, api_key_id, time_frame_start) ==
    [ret |-> TRUE, seen |-> sn]

\* the body of is_new_usage under the lock: [ret, seen]
is_new_usage(sn, provider, model, project, api_key_id, time_frame_start) ==
    LET key == _make_usage_key(provider, model, project, api_key_id,
                               time_frame_start)
    IN  IF key \in DOMAIN sn
        THEN [ret |-> FALSE, seen |-> sn]
        ELSE [ret |-> TRUE, seen |-> Put(sn, key, time_frame_start)]

\* faulty variant: a key found present is dropped from the tracker
is_new_cost_drops(sn, provider, project, time_frame_start) ==
    LET key == _make_cost_key(provider, project, time_frame_start)
    IN  IF key \in DOMAIN sn
        THEN [ret |-> FALSE, seen |-> [k \in (DOMAIN sn) \ {key} |-> sn[k]]]
        ELSE [ret |-> TRUE, seen |-> Put(sn, key, time_frame_start)]

\* the body of is_new_cost under the lock: [ret, seen]
is_new_cost(sn, provider, project, time_frame_start) ==
    LET key == _make_cost_key(provider, project, time_frame_start)
    IN  IF key \in DOMAIN sn
        THEN [ret |-> FALSE, seen |-> sn]
        ELSE [ret |-> TRUE, seen |-> Put(sn, key, time_frame_start)]

\* faulty variant: the sweep counts the old entries and removes none
evict_before_keeps(sn, cutoff) ==
    [ret |-> Cardinality({k \in DOMAIN sn : sn[k] < cutoff}), seen |-> sn,
     removed |-> {}]

\* faulty variant: entries whose window-start equals the cutoff are removed too
evict_before_inclusive(sn, cutoff) ==
    LET to_remove == {k \in DOMAIN sn : sn[k] <= cutoff}
    IN  [ret |-> Cardinality(to_remove),
         seen |-> [k \in (DOMAIN sn) \ to_remove |-> sn[k]],
         removed |-> to_remove]

\* evict_before: [ret, seen, removed]
evict_before(sn, cutoff) ==
    LET to_remove == {k \in DOMAIN sn : sn[k] < cutoff}
    IN  [ret |-> Cardinality(to_remove),
         seen |-> [k \in (DOMAIN sn) \ to_remove |-> sn[k]],
         removed |-> to_remove]

-----------------------------------------------------------------------------
(* metrics.py *)

UsageLabels(record) ==
    <<record.provider, record.model, record.project, record.api_key_id>>

TokenLabels(record, direction) ==
    <<record.provider, record.model, record.project, record.api_key_id, direction>>

CostLabels(record) == <<record.provider, record.project>>

\* faulty variant: the request counter counts calls, not requests
update_usage_counts_calls(sink, record) ==
    [sink EXCEPT
        !.requests_total = Inc(@, UsageLabels(record), 1),
        !.tokens_total = Inc(Inc(@, TokenLabels(record, "input"), record.input_tokens),
                             TokenLabels(record, "output"), record.output_tokens)]

\* update_usage on sink = [requests_total, tokens_total]; the caller has looked
\* up self._provider_metrics[record.provider] (KeyError when not registered)
update_usage(sink, record) ==
    [sink EXCEPT
        !.requests_total = Inc(@, UsageLabels(record), record.request_count),
        !.tokens_total = Inc(Inc(@, TokenLabels(record, "input"), record.input_tokens),
                             TokenLabels(record, "output"), record.output_tokens)]

\* faulty variant: every provider's errors are counted under one provider label
inc_scrape_error_one_label(errors, provider, stage) == Inc(errors, <<"openai", stage>>, 1)

\* faulty variant: every error is counted under the usage stage
inc_scrape_error_usage_only(errors, provider, stage) ==
    Inc(errors, <<provider, "usage">>, 1)

inc_scrape_error(errors, provider, stage) == Inc(errors, <<provider, stage>>, 1)

-----------------------------------------------------------------------------
(* collector.py: _collect_provider *)

UsageKeyOf(record) ==
    _make_usage_key(record.provider, record.model, record.project,
                    record.api_key_id, record.time_frame_start)

CostKeyOf(record) ==
    _make_cost_key(record.provider, record.project, record.time_frame_start)

\* faulty variant: a window ending after now passes the check
Incomplete_never(record, nw) == FALSE

\* `if record.time_frame_end > now: continue`
Incomplete(record, nw) == record.time_frame_end > nw

\* faulty variant: an answer without records is taken for a failure
ProcessUsage_empty_raises(records, nw, st) ==
    IF records = << >> THEN [st EXCEPT !.exc = TRUE] ELSE st

\* faulty variant: the usage loop is left before it looks at a record
ProcessUsage_none(records, nw, st) == st

\* The usage loop over the fetched records, on
\* st = [seen, sink, calls, applied, skipped, rejected, exc]; exc is set by the
\* KeyError of update_usage for an unregistered provider, which ends the loop.
RECURSIVE ProcessUsage(_, _, _)
ProcessUsage(records, nw, st) ==
    IF records = << >> THEN st
    ELSE
        LET record == Head(records)
            rest == Tail(records)
        IN  IF Incomplete(record, nw)
            THEN ProcessUsage(rest, nw,
                    [st EXCEPT !.skipped = @ \cup
                        {[kind |-> "usage", record |-> record, now |-> nw]}])
            ELSE
                LET r == is_new_usage(st.seen, record.provider, record.model,
                                      record.project, record.api_key_id,
                                      record.time_frame_start)
                IN  IF ~r.ret
                    THEN ProcessUsage(rest, nw,
                            [st EXCEPT !.rejected = @ \cup
                                {[record |-> record, now |-> nw]}])
                    ELSE IF record.provider \notin provider_metrics
                    THEN [st EXCEPT !.seen = r.seen, !.exc = TRUE]
                    ELSE ProcessUsage(rest, nw,
                            [st EXCEPT
                                !.seen = r.seen,
                                !.sink = update_usage(@, record),
                                !.calls = Inc(@, [record |-> record, now |-> nw], 1),
                                !.applied = Inc(@, UsageKeyOf(record), 1)])

\* The cost loop over the fetched records, on st = [skipped, failed, reported, exc].
\* The first finalized record reaches `self._record_tracker.cost_delta(...)`;
\* RecordTracker defines no attribute cost_delta (RecordTrackerAttrs), so the
\* attribute lookup raises AttributeError and the loop ends.
RECURSIVE ProcessCosts(_, _, _)
ProcessCosts(records, nw, st) ==
    IF records = << >> THEN st
    ELSE
        LET record == Head(records)
            rest == Tail(records)
        IN  IF Incomplete(record, nw)
            THEN ProcessCosts(rest, nw,
                    [st EXCEPT !.skipped = @ \cup
                        {[kind |-> "cost", record |-> record, now |-> nw]}])
            ELSE IF "cost_delta" \notin RecordTrackerAttrs
            THEN [st EXCEPT !.failed = @ \cup {[record |-> record, now |-> nw]},
                            !.reported = Put(@, CostKeyOf(record), record.amount_usd),
                            !.exc = TRUE]
            ELSE ProcessCosts(rest, nw, st)

\* the first try block, resumed when fetch_usage yields outcome o
UsageStep(p, o) ==
    /\ tpc[p] = "fetch_usage"
    /\ LET st0 == [seen |-> seen,
                   sink |-> [requests_total |-> requests_total,
                             tokens_total |-> tokens_total],
                   calls |-> usage_calls, applied |-> usage_applied,
                   skipped |-> skipped,
                   rejected |-> rejected, exc |-> FALSE]
           st == IF o.raises THEN [st0 EXCEPT !.exc = TRUE]
                 ELSE ProcessUsage(o.records, now, st0)
       IN  /\ seen' = st.seen
           /\ requests_total' = st.sink.requests_total
           /\ tokens_total' = st.sink.tokens_total
           /\ usage_calls' = st.calls
           /\ usage_applied' = st.applied
           /\ skipped' = st.skipped
           /\ rejected' = st.rejected
           /\ scrape_errors' = IF st.exc THEN inc_scrape_error(scrape_errors, p, "usage")
                               ELSE scrape_errors
           /\ had_error' = [had_error EXCEPT ![p] = st.exc]
    /\ fetch_raised' = [fetch_raised EXCEPT ![p].usage = o.raises]
    /\ tpc' = [tpc EXCEPT ![p] = "fetch_costs"]
    /\ UNCHANGED <<clock, providers, last_scrape, stop_event, rpc, start_time,
                   end_time, now, provider_metrics, cost_usd_total, scrape_duration,
                   last_scrape_success, cycle, cost_failed, cost_reported, evictions, snap, stopped_at>>
    /\ UNCHANGED <<trackVars, thrVars, restVars>>

\* faulty variant: an error of the usage stage is forgotten by the cost stage
CostStep_ignores_usage(p, o) ==
    /\ tpc[p] = "fetch_costs"
    /\ LET st0 == [skipped |-> skipped, failed |-> cost_failed,
                   reported |-> cost_reported, exc |-> FALSE]
           st == IF o.raises THEN [st0 EXCEPT !.exc = TRUE]
                 ELSE ProcessCosts(o.records, now, st0)
           err == st.exc
       IN  /\ skipped' = st.skipped
           /\ cost_failed' = st.failed
           /\ cost_reported' = st.reported
           /\ scrape_errors' = IF st.exc THEN inc_scrape_error(scrape_errors, p, "cost")
                               ELSE scrape_errors
           /\ had_error' = [had_error EXCEPT ![p] = err]
           /\ last_scrape_success' = IF err THEN last_scrape_success
                                     ELSE Put(last_scrape_success, p, clock)
    /\ scrape_duration' = Inc(scrape_duration, p, 1)
    /\ fetch_raised' = [fetch_raised EXCEPT ![p].cost = o.raises]
    /\ tpc' = [tpc EXCEPT ![p] = "done"]
    /\ UNCHANGED <<clock, providers, last_scrape, stop_event, rpc, start_time,
                   end_time, now, provider_metrics, requests_total, tokens_total,
                   cost_usd_total, cycle, usage_applied, usage_calls, rejected, evictions, snap, stopped_at>>
    /\ UNCHANGED <<seen, trackVars, thrVars, restVars>>

\* faulty variant: the duration is observed only when the task had no error
CostStep_observes_success(p, o) ==
    /\ tpc[p] = "fetch_costs"
    /\ LET st0 == [skipped |-> skipped, failed |-> cost_failed,
                   reported |-> cost_reported, exc |-> FALSE]
           st == IF o.raises THEN [st0 EXCEPT !.exc = TRUE]
                 ELSE ProcessCosts(o.records, now, st0)
           err == had_error[p] \/ st.exc
       IN  /\ skipped' = st.skipped
           /\ cost_failed' = st.failed
           /\ cost_reported' = st.reported
           /\ scrape_errors' = IF st.exc THEN inc_scrape_error(scrape_errors, p, "cost")
                               ELSE scrape_errors
           /\ had_error' = [had_error EXCEPT ![p] = err]
           /\ last_scrape_success' = IF err THEN last_scrape_success
                                     ELSE Put(last_scrape_success, p, clock)
           /\ scrape_duration' = IF err THEN scrape_duration
                                 ELSE Inc(scrape_duration, p, 1)
    /\ fetch_raised' = [fetch_raised EXCEPT ![p].cost = o.raises]
    /\ tpc' = [tpc EXCEPT ![p] = "done"]
    /\ UNCHANGED <<clock, providers, last_scrape, stop_event, rpc, start_time,
                   end_time, now, provider_metrics, requests_total, tokens_total,
                   cost_usd_total, cycle, usage_applied, usage_calls, rejected, evictions, snap, stopped_at>>
    /\ UNCHANGED <<seen, trackVars, thrVars, restVars>>

\* the second try block, resumed when fetch_costs yields outcome o, and the
\* rest of _collect_provider
CostStep(p, o) ==
    /\ tpc[p] = "fetch_costs"
    /\ LET st0 == [skipped |-> skipped, failed |-> cost_failed,
                   reported |-> cost_reported, exc |-> FALSE]
           st == IF o.raises THEN [st0 EXCEPT !.exc = TRUE]
                 ELSE ProcessCosts(o.records, now, st0)
           err == had_error[p] \/ st.exc
       IN  /\ skipped' = st.skipped
           /\ cost_failed' = st.failed
           /\ cost_reported' = st.reported
           /\ scrape_errors' = IF st.exc THEN inc_scrape_error(scrape_errors, p, "cost")
                               ELSE scrape_errors
           /\ had_error' = [had_error EXCEPT ![p] = err]
           /\ last_scrape_success' = IF err THEN last_scrape_success
                                     ELSE Put(last_scrape_success, p, clock)
    /\ scrape_duration' = Inc(scrape_duration, p, 1)
    /\ fetch_raised' = [fetch_raised EXCEPT ![p].cost = o.raises]
    /\ tpc' = [tpc EXCEPT ![p] = "done"]
    /\ UNCHANGED <<clock, providers, last_scrape, stop_event, rpc, start_time,
                   end_time, now, provider_metrics, requests_total, tokens_total,
                   cost_usd_total, cycle, usage_applied, usage_calls, rejected, evictions, snap, stopped_at>>
    /\ UNCHANGED <<seen, trackVars, thrVars, restVars>>

UsageStage(p) == \E o \in UsageOutcomes : UsageStep(p, o)

CostStage(p) == \E o \in CostOutcomes : CostStep(p, o)

-----------------------------------------------------------------------------
(* collector.py: run, stop *)

SinkSnapshot(p) ==
    [usage_errors |-> Get(scrape_errors, <<p, "usage">>, 0),
     cost_errors |-> Get(scrape_errors, <<p, "cost">>, 0),
     success |-> last_scrape_success,
     requests_total |-> requests_total,
     tokens_total |-> tokens_total,
     cost_usd_total |-> cost_usd_total]

\* faulty variant: the first window starts at the time run() is entered
RunStart_now ==
    /\ rpc = "start"
    /\ last_scrape' = clock
    /\ rpc' = "loop"
    /\ UNCHANGED <<clock, providers, stop_event, start_time, end_time, now, tpc,
                   had_error, provider_metrics, requests_total, tokens_total,
                   cost_usd_total, scrape_errors, scrape_duration,
                   last_scrape_success, cycle, usage_applied, usage_calls, skipped,
                   rejected, cost_failed, cost_reported, evictions, fetch_raised,
                   snap, stopped_at>>
    /\ UNCHANGED <<seen, trackVars, thrVars, restVars>>

\* self._last_scrape = int(time.time()) - self._interval
RunStart ==
    /\ rpc = "start"
    /\ last_scrape' = clock - Interval
    /\ rpc' = "loop"
    /\ UNCHANGED <<clock, providers, stop_event, start_time, end_time, now, tpc,
                   had_error, provider_metrics, requests_total, tokens_total,
                   cost_usd_total, scrape_errors, scrape_duration,
                   last_scrape_success, cycle, usage_applied, usage_calls, skipped, rejected,
                   cost_failed, cost_reported, evictions, fetch_raised, snap, stopped_at>>
    /\ UNCHANGED <<seen, trackVars, thrVars, restVars>>

\* the loop body up to `await asyncio.gather(*tasks)`: the window, the eviction
\* sweep, and every provider task started up to its first await
CycleStart ==
    /\ rpc = "loop"
    /\ ~stop_event
    /\ cycle < MaxCycles
    /\ start_time' = last_scrape
    /\ end_time' = last_scrape + Interval
    /\ now' = clock
    /\ LET e == evict_before(seen, clock - DEFAULT_EVICTION_AGE_SECONDS)
       IN  /\ seen' = e.seen
           /\ evictions' = [k \in (DOMAIN evictions) \cup e.removed |->
                               Get(evictions, k, 0) + (IF k \in e.removed THEN 1 ELSE 0)]
    /\ tpc' = [p \in Range(providers) |-> "fetch_usage"]
    /\ had_error' = [p \in Range(providers) |-> FALSE]
    /\ fetch_raised' = [p \in Range(providers) |-> [usage |-> FALSE, cost |-> FALSE]]
    /\ snap' = [p \in Range(providers) |-> SinkSnapshot(p)]
    /\ cycle' = cycle + 1
    /\ usage_calls' = EmptyMap
    /\ skipped' = {}
    /\ rejected' = {}
    /\ cost_failed' = {}
    /\ rpc' = "gather"
    /\ UNCHANGED <<clock, providers, last_scrape, stop_event, provider_metrics,
                   requests_total, tokens_total, cost_usd_total, scrape_errors,
                   scrape_duration, last_scrape_success, usage_applied,
                   cost_reported, stopped_at>>
    /\ UNCHANGED <<trackVars, thrVars, shutVars, openaiVars, mainVars, sinkVars,
                   dedupVars, slowVars, resolveVars>>
    /\ skipped_before' = skipped_before \cup
                            {[kind |-> e.kind, record |-> e.record] : e \in skipped}

\* faulty variant: the cycle ends as soon as one provider task is over
CycleEnd_early ==
    /\ rpc = "gather"
    /\ \E p \in Range(providers) : tpc[p] = "done"
    /\ last_scrape' = end_time
    /\ rpc' = "wait"
    /\ UNCHANGED <<clock, providers, stop_event, start_time, end_time, now, tpc,
                   had_error, provider_metrics, requests_total, tokens_total,
                   cost_usd_total, scrape_errors, scrape_duration,
                   last_scrape_success, cycle, usage_applied, usage_calls, skipped,
                   rejected, cost_failed, cost_reported, evictions, fetch_raised,
                   snap, stopped_at>>
    /\ UNCHANGED <<seen, trackVars, thrVars, restVars>>

\* faulty variant: the next window starts at the time the cycle ended
CycleEnd_clock ==
    /\ rpc = "gather"
    /\ \A p \in Range(providers) : tpc[p] = "done"
    /\ last_scrape' = clock
    /\ rpc' = "wait"
    /\ UNCHANGED <<clock, providers, stop_event, start_time, end_time, now, tpc,
                   had_error, provider_metrics, requests_total, tokens_total,
                   cost_usd_total, scrape_errors, scrape_duration,
                   last_scrape_success, cycle, usage_applied, usage_calls, skipped,
                   rejected, cost_failed, cost_reported, evictions, fetch_raised,
                   snap, stopped_at>>
    /\ UNCHANGED <<seen, trackVars, thrVars, restVars>>

\* gather has returned: self._last_scrape = end_time, then the wait begins
CycleEnd ==
    /\ rpc = "gather"
    /\ \A p \in Range(providers) : tpc[p] = "done"
    /\ last_scrape' = end_time
    /\ rpc' = "wait"
    /\ UNCHANGED <<clock, providers, stop_event, start_time, end_time, now, tpc,
                   had_error, provider_metrics, requests_total, tokens_total,
                   cost_usd_total, scrape_errors, scrape_duration,
                   last_scrape_success, cycle, usage_applied, usage_calls, skipped, rejected,
                   cost_failed, cost_reported, evictions, fetch_raised, snap, stopped_at>>
    /\ UNCHANGED <<seen, trackVars, thrVars, restVars>>

\* wait_for(self._stop_event.wait(), timeout=self._interval) times out
WaitTimeout ==
    /\ rpc = "wait"
    /\ ~stop_event
    /\ clock' = clock + Interval
    /\ rpc' = "loop"
    /\ UNCHANGED <<providers, last_scrape, stop_event, start_time, end_time, now,
                   tpc, had_error, provider_metrics, requests_total, tokens_total,
                   cost_usd_total, scrape_errors, scrape_duration,
                   last_scrape_success, cycle, usage_applied, usage_calls, skipped, rejected,
                   cost_failed, cost_reported, evictions, fetch_raised, snap, stopped_at>>
    /\ UNCHANGED <<seen, trackVars, thrVars, restVars>>

\* faulty variant: the wait sleeps the whole interval although the event is set
WaitStopped_sleeps ==
    /\ rpc = "wait"
    /\ stop_event
    /\ clock' = clock + Interval
    /\ rpc' = "loop"
    /\ UNCHANGED <<providers, last_scrape, stop_event, start_time, end_time, now,
                   tpc, had_error, provider_metrics, requests_total, tokens_total,
                   cost_usd_total, scrape_errors, scrape_duration,
                   last_scrape_success, cycle, usage_applied, usage_calls, skipped,
                   rejected, cost_failed, cost_reported, evictions, fetch_raised,
                   snap, stopped_at>>
    /\ UNCHANGED <<seen, trackVars, thrVars, restVars>>

\* the wait returns because the event is set
WaitStopped ==
    /\ rpc = "wait"
    /\ stop_event
    /\ rpc' = "loop"
    /\ UNCHANGED <<clock, providers, last_scrape, stop_event, start_time, end_time,
                   now, tpc, had_error, provider_metrics, requests_total,
                   tokens_total, cost_usd_total, scrape_errors, scrape_duration,
                   last_scrape_success, cycle, usage_applied, usage_calls, skipped, rejected,
                   cost_failed, cost_reported, evictions, fetch_raised, snap, stopped_at>>
    /\ UNCHANGED <<seen, trackVars, thrVars, restVars>>

\* faulty variant: the event is also examined while the tasks are in flight
LoopExit_mid_cycle ==
    /\ rpc \in {"loop", "gather"}
    /\ stop_event
    /\ rpc' = "returned"
    /\ UNCHANGED <<clock, providers, last_scrape, stop_event, start_time, end_time,
                   now, tpc, had_error, provider_metrics, requests_total,
                   tokens_total, cost_usd_total, scrape_errors, scrape_duration,
                   last_scrape_success, cycle, usage_applied, usage_calls, skipped,
                   rejected, cost_failed, cost_reported, evictions, fetch_raised,
                   snap, stopped_at>>
    /\ UNCHANGED <<seen, trackVars, thrVars, restVars>>

\* `while not self._stop_event.is_set()` finds the event set
LoopExit ==
    /\ rpc = "loop"
    /\ stop_event
    /\ rpc' = "returned"
    /\ UNCHANGED <<clock, providers, last_scrape, stop_event, start_time, end_time,
                   now, tpc, had_error, provider_metrics, requests_total,
                   tokens_total, cost_usd_total, scrape_errors, scrape_duration,
                   last_scrape_success, cycle, usage_applied, usage_calls, skipped, rejected,
                   cost_failed, cost_reported, evictions, fetch_raised, snap, stopped_at>>
    /\ UNCHANGED <<seen, trackVars, thrVars, restVars>>

\* Collector.stop, from the signal handler
Stop ==
    /\ rpc \in {"loop", "gather", "wait"}
    /\ ~stop_event
    /\ stop_event' = TRUE
    /\ stopped_at' = rpc
    /\ UNCHANGED <<clock, providers, last_scrape, rpc, start_time, end_time, now,
                   tpc, had_error, provider_metrics, requests_total, tokens_total,
                   cost_usd_total, scrape_errors, scrape_duration,
                   last_scrape_success, cycle, usage_applied, usage_calls, skipped, rejected,
                   cost_failed, cost_reported, evictions, fetch_raised, snap>>
    /\ UNCHANGED <<seen, trackVars, thrVars, restVars>>

-----------------------------------------------------------------------------
(* Initial states *)

ShutIdle ==
    /\ close_pc = "none"
    /\ close_i = 0
    /\ close_calls = << >>

OpenAIIdle ==
    /\ ep_cycle = 0
    /\ ep_i = 0
    /\ ep_records = << >>
    /\ ep_failed = {}

MainIdle ==
    /\ m_pc = "none"
    /\ http_server = FALSE
    /\ exit_code = -1
    /\ stderr = ""

SinkIdle ==
    /\ registry = {}
    /\ sk_n = 0
    /\ sk_op = "none"
    /\ sk_args = "none"
    /\ sk_ret = "none"

DedupIdle ==
    /\ d_seen = {}
    /\ d_n = 0
    /\ d_args = << >>
    /\ d_ret = "none"
    /\ d_passed = {}

SlowIdle == delays = 0

ResolveIdle ==
    /\ rs_names = << >>
    /\ rs_lock = 0
    /\ rs_pc = << >>
    /\ rs_id = << >>
    /\ rs_ret = << >>
    /\ rs_calls = << >>
    /\ rs_requests = << >>
    /\ rs_failed = {}
    /\ rs_returns = {}
    /\ rs_waited = {}

HistIdle == skipped_before = {}

RestIdle ==
    /\ ShutIdle /\ OpenAIIdle /\ MainIdle /\ SinkIdle /\ DedupIdle /\ SlowIdle
    /\ ResolveIdle /\ HistIdle

TrackIdle ==
    /\ tr_n = 0
    /\ tr_op = "none"
    /\ tr_args = << >>
    /\ tr_ret = "none"
    /\ tr_num = 0
    /\ tr_called = {}
    /\ tr_cut = << >>
    /\ tr_again = -1
    /\ tr_cost = << >>

ThreadsIdle ==
    /\ lock = 0
    /\ th_pc = << >>
    /\ th_args = << >>
    /\ th_ret = << >>

CollectorIdle ==
    /\ clock = T0
    /\ providers = << >>
    /\ last_scrape = 0
    /\ stop_event = FALSE
    /\ rpc = "none"
    /\ start_time = 0
    /\ end_time = 0
    /\ now = 0
    /\ tpc = << >>
    /\ had_error = << >>
    /\ provider_metrics = {}
    /\ requests_total = EmptyMap
    /\ tokens_total = EmptyMap
    /\ cost_usd_total = EmptyMap
    /\ scrape_errors = EmptyMap
    /\ scrape_duration = EmptyMap
    /\ last_scrape_success = EmptyMap
    /\ cycle = 0
    /\ usage_applied = EmptyMap
    /\ usage_calls = EmptyMap
    /\ skipped = {}
    /\ rejected = {}
    /\ cost_failed = {}
    /\ cost_reported = EmptyMap
    /\ evictions = EmptyMap
    /\ fetch_raised = << >>
    /\ snap = << >>
    /\ stopped_at = "none"

\* __main__.main builds the sink, the tracker and the collector; a caller may
\* also build a Collector on a sink where the provider was never registered
Init ==
    /\ clock = T0
    /\ providers = <<"openai">>
    /\ last_scrape = 0
    /\ stop_event = FALSE
    /\ rpc = "start"
    /\ start_time = 0
    /\ end_time = 0
    /\ now = 0
    /\ tpc = [p \in Range(providers) |-> "idle"]
    /\ had_error = [p \in Range(providers) |-> FALSE]
    /\ seen = EmptyMap
    /\ provider_metrics \in {{}, {"openai"}}
    /\ requests_total = EmptyMap
    /\ tokens_total = EmptyMap
    /\ cost_usd_total = EmptyMap
    /\ scrape_errors = EmptyMap
    /\ scrape_duration = EmptyMap
    /\ last_scrape_success = EmptyMap
    /\ cycle = 0
    /\ usage_applied = EmptyMap
    /\ usage_calls = EmptyMap
    /\ skipped = {}
    /\ rejected = {}
    /\ cost_failed = {}
    /\ cost_reported = EmptyMap
    /\ evictions = EmptyMap
    /\ fetch_raised = [p \in Range(providers) |-> [usage |-> FALSE, cost |-> FALSE]]
    /\ snap = [p \in Range(providers) |-> SinkSnapshot(p)]
    /\ stopped_at = "none"
    /\ TrackIdle
    /\ RestIdle
    /\ ThreadsIdle

Next ==
    \/ RunStart
    \/ CycleStart
    \/ \E p \in Range(providers) : UsageStage(p)
    \/ \E p \in Range(providers) : CostStage(p)
    \/ CycleEnd
    \/ WaitTimeout
    \/ WaitStopped
    \/ LoopExit
    \/ Stop

Spec == Init /\ [][Next]_vars

-----------------------------------------------------------------------------
(* Direct calls on one RecordTracker, as the tests make them (SpecTracker) *)

\* argument values; some hold the separator of the key format
UsageArgs ==
    [provider : {"openai"}, model : {"gpt-4o", "cost"}, project : {"p", "p|k"},
     api_key_id : {"k", "k|k"}, time_frame_start : {1000, 5000}]

CostArgs ==
    [provider : {"openai"}, project : {"p", "p|k"}, time_frame_start : {1000, 5000}]

Amounts == {5, 8}

Cutoffs == {1000, 3000}

UsageKeyOfArgs(a) ==
    _make_usage_key(a.provider, a.model, a.project, a.api_key_id, a.time_frame_start)

CostKeyOfArgs(a) == _make_cost_key(a.provider, a.project, a.time_frame_start)

BoolStr(b) == IF b THEN "True" ELSE "False"

TrIsNewUsage(a) ==
    /\ tr_op' = "is_new_usage"
    /\ tr_n < MaxCalls
    /\ tr_n' = tr_n + 1
    /\ tr_args' = a
    /\ LET r == is_new_usage(seen, a.provider, a.model, a.project, a.api_key_id,
                              a.time_frame_start)
       IN  /\ seen' = r.seen
           /\ tr_ret' = BoolStr(r.ret)
    /\ tr_num' = 0
    /\ tr_called' = tr_called \cup {a}
    /\ tr_cut' = Put(tr_cut, UsageKeyOfArgs(a), 0)
    /\ tr_again' = Get(tr_cut, UsageKeyOfArgs(a), -1)
    /\ UNCHANGED tr_cost
    /\ UNCHANGED <<collVars, thrVars, restVars>>

TrIsNewCost(a) ==
    /\ tr_op' = "is_new_cost"
    /\ tr_n < MaxCalls
    /\ tr_n' = tr_n + 1
    /\ tr_args' = a
    /\ LET r == is_new_cost(seen, a.provider, a.project, a.time_frame_start)
       IN  /\ seen' = r.seen
           /\ tr_ret' = BoolStr(r.ret)
    /\ tr_num' = 0
    /\ tr_cut' = Put(tr_cut, CostKeyOfArgs(a), 0)
    /\ tr_again' = -1
    /\ UNCHANGED <<tr_called, tr_cost>>
    /\ UNCHANGED <<collVars, thrVars, restVars>>

TrEvictBefore(cutoff) ==
    /\ tr_op' = "evict_before"
    /\ tr_n < MaxCalls
    /\ tr_n' = tr_n + 1
    /\ tr_args' = [cutoff |-> cutoff]
    /\ LET e == evict_before(seen, cutoff)
       IN  /\ seen' = e.seen
           /\ tr_ret' = "int"
           /\ tr_num' = e.ret
           /\ tr_called' = {a \in tr_called : UsageKeyOfArgs(a) \notin e.removed}
    /\ tr_cut' = [k \in DOMAIN tr_cut |-> Max(tr_cut[k], cutoff)]
    /\ tr_again' = -1
    /\ UNCHANGED tr_cost
    /\ UNCHANGED <<collVars, thrVars, restVars>>

\* store.cost_delta(provider=..., project=..., time_frame_start=..., amount=...):
\* the attribute lookup on the RecordTracker instance fails
TrCostDelta(a, amount) ==
    /\ tr_op' = "cost_delta"
    /\ tr_n < MaxCalls
    /\ tr_n' = tr_n + 1
    /\ tr_args' = [provider |-> a.provider, project |-> a.project,
                   time_frame_start |-> a.time_frame_start, amount |-> amount]
    /\ IF "cost_delta" \in RecordTrackerAttrs
       THEN FALSE
       ELSE /\ tr_ret' = "AttributeError"
            /\ tr_num' = 0
            /\ seen' = seen
    /\ UNCHANGED <<tr_called, tr_cut>>
    /\ tr_again' = -1
    /\ tr_cost' = Put(tr_cost, a, [sum |-> Get(tr_cost, a, [sum |-> 0, max |-> 0]).sum,
                                 max |-> Max(Get(tr_cost, a, [sum |-> 0, max |-> 0]).max, amount)])
    /\ UNCHANGED <<collVars, thrVars, restVars>>

\* store = RecordTracker()
InitTracker ==
    /\ seen = EmptyMap
    /\ TrackIdle
    /\ RestIdle
    /\ CollectorIdle
    /\ ThreadsIdle

NextTracker ==
    \/ \E a \in UsageArgs : TrIsNewUsage(a)
    \/ \E a \in CostArgs : TrIsNewCost(a)
    \/ \E cutoff \in Cutoffs : TrEvictBefore(cutoff)
    \/ \E a \in CostArgs : \E amount \in Amounts : TrCostDelta(a, amount)

SpecTracker == InitTracker /\ [][NextTracker]_vars

-----------------------------------------------------------------------------
(* Threads inside RecordTracker.is_new_usage (SpecThreads) *)

Threads == 1..NThreads

ThreadArgs ==
    [provider : {"openai"}, model : {"gpt-4o"}, project : {"p"},
     api_key_id : {"k"}, time_frame_start : {1000, 5000}]

\* faulty variant: the lock admits a thread while another holds it
LockFree_always(l) == TRUE

\* threading.Lock: acquire succeeds only when no thread holds it
LockFree(l) == l = 0

\* `with self._lock:` entered
ThAcquire(t) ==
    /\ th_pc[t] = "call"
    /\ LockFree(lock)
    /\ lock' = t
    /\ th_pc' = [th_pc EXCEPT ![t] = "check"]
    /\ UNCHANGED <<seen, th_args, th_ret>>
    /\ UNCHANGED <<collVars, trackVars, restVars>>

\* `if key in self._seen: return False`
ThCheck(t) ==
    /\ th_pc[t] = "check"
    /\ IF UsageKeyOfArgs(th_args[t]) \in DOMAIN seen
       THEN /\ th_ret' = [th_ret EXCEPT ![t] = "False"]
            /\ th_pc' = [th_pc EXCEPT ![t] = "release"]
       ELSE /\ th_ret' = th_ret
            /\ th_pc' = [th_pc EXCEPT ![t] = "insert"]
    /\ UNCHANGED <<seen, lock, th_args>>
    /\ UNCHANGED <<collVars, trackVars, restVars>>

\* `self._seen[key] = time_frame_start; return True`
ThInsert(t) ==
    /\ th_pc[t] = "insert"
    /\ seen' = Put(seen, UsageKeyOfArgs(th_args[t]), th_args[t].time_frame_start)
    /\ th_ret' = [th_ret EXCEPT ![t] = "True"]
    /\ th_pc' = [th_pc EXCEPT ![t] = "release"]
    /\ UNCHANGED <<lock, th_args>>
    /\ UNCHANGED <<collVars, trackVars, restVars>>

\* the with block is left and the lock released
ThRelease(t) ==
    /\ th_pc[t] = "release"
    /\ lock' = 0
    /\ th_pc' = [th_pc EXCEPT ![t] = "done"]
    /\ UNCHANGED <<seen, th_args, th_ret>>
    /\ UNCHANGED <<collVars, trackVars, restVars>>

\* a fresh tracker, and every thread about to call with its arguments
InitThreads ==
    /\ seen = EmptyMap
    /\ lock = 0
    /\ th_pc = [t \in Threads |-> "call"]
    /\ th_args \in [Threads -> ThreadArgs]
    /\ th_ret = [t \in Threads |-> "none"]
    /\ TrackIdle
    /\ RestIdle
    /\ CollectorIdle

NextThreads ==
    \/ \E t \in Threads : ThAcquire(t)
    \/ \E t \in Threads : ThCheck(t)
    \/ \E t \in Threads : ThInsert(t)
    \/ \E t \in Threads : ThRelease(t)

SpecThreads == InitThreads /\ [][NextThreads]_vars

-----------------------------------------------------------------------------
(* Collector.run over several providers (SpecMulti, SpecMultiLive) *)

\* Collector(providers, ...): the provider list of a collector built on two
\* providers, each registered with the sink as __main__.main does
MultiProviders == <<"openai", "mock">>

\* the record as provider p builds it
ReportedBy(p, r) == [r EXCEPT !.provider = p]

\* fetch_usage of p raises, or returns the window that closed at T0
MultiUsageOutcomes(p) == {Raised, Returned(<<ReportedBy(p, URecent)>>)}

\* fetch_costs of p raises, or returns the window that closes one interval
\* after T0: still open in the first cycle, finalized in the second
MultiCostOutcomes(p) == {Raised, Returned(<<ReportedBy(p, CostNext)>>)}

MultiUsageStage(p) == \E o \in MultiUsageOutcomes(p) : UsageStep(p, o)

MultiCostStage(p) == \E o \in MultiCostOutcomes(p) : CostStep(p, o)

InitMulti ==
    /\ clock = T0
    /\ providers = MultiProviders
    /\ last_scrape = 0
    /\ stop_event = FALSE
    /\ rpc = "start"
    /\ start_time = 0
    /\ end_time = 0
    /\ now = 0
    /\ tpc = [p \in Range(providers) |-> "idle"]
    /\ had_error = [p \in Range(providers) |-> FALSE]
    /\ seen = EmptyMap
    /\ provider_metrics = Range(providers)
    /\ requests_total = EmptyMap
    /\ tokens_total = EmptyMap
    /\ cost_usd_total = EmptyMap
    /\ scrape_errors = EmptyMap
    /\ scrape_duration = EmptyMap
    /\ last_scrape_success = EmptyMap
    /\ cycle = 0
    /\ usage_applied = EmptyMap
    /\ usage_calls = EmptyMap
    /\ skipped = {}
    /\ rejected = {}
    /\ cost_failed = {}
    /\ cost_reported = EmptyMap
    /\ evictions = EmptyMap
    /\ fetch_raised = [p \in Range(providers) |-> [usage |-> FALSE, cost |-> FALSE]]
    /\ snap = [p \in Range(providers) |-> SinkSnapshot(p)]
    /\ stopped_at = "none"
    /\ TrackIdle
    /\ RestIdle
    /\ ThreadsIdle

\* the steps of the provider tasks that gather runs
MultiTasks ==
    \/ \E p \in Range(providers) : MultiUsageStage(p)
    \/ \E p \in Range(providers) : MultiCostStage(p)

\* the steps run() takes by itself
RunSteps ==
    \/ RunStart
    \/ CycleStart
    \/ CycleEnd
    \/ WaitTimeout
    \/ WaitStopped
    \/ LoopExit

NextMulti ==
    \/ MultiTasks
    \/ RunSteps
    \/ Stop

SpecMulti == InitMulti /\ [][NextMulti]_vars

\* Every fetch terminates (it returns or raises), the event loop resumes a task
\* that can run, and the wait ends by the timeout or the event; nothing makes
\* stop() happen.
SpecMultiLive ==
    /\ SpecMulti
    /\ \A p \in Range(MultiProviders) : WF_vars(MultiUsageStage(p))
    /\ \A p \in Range(MultiProviders) : WF_vars(MultiCostStage(p))
    /\ WF_vars(RunSteps)

-----------------------------------------------------------------------------
(* Collector.run when a fetch or the wait takes long (SpecSlow) *)

\* seconds by which an await may be late
Delays == {30, DEFAULT_EVICTION_AGE_SECONDS}

\* time passes while run() awaits the gathered tasks or the wait
Delay(d) ==
    /\ rpc \in {"gather", "wait"}
    /\ delays < MaxDelays
    /\ delays' = delays + 1
    /\ clock' = clock + d
    /\ UNCHANGED <<providers, last_scrape, stop_event, rpc, start_time, end_time,
                   now, tpc, had_error, provider_metrics, requests_total,
                   tokens_total, cost_usd_total, scrape_errors, scrape_duration,
                   last_scrape_success, cycle, usage_applied, usage_calls, skipped,
                   rejected, cost_failed, cost_reported, evictions, fetch_raised,
                   snap, stopped_at>>
    /\ UNCHANGED <<seen, trackVars, thrVars, shutVars, openaiVars, mainVars, sinkVars,
                   dedupVars, resolveVars, histVars>>

NextSlow ==
    \/ NextMulti
    \/ \E d \in Delays : Delay(d)

SpecSlow == InitMulti /\ [][NextSlow]_vars

-----------------------------------------------------------------------------
(* Shutdown: __main__._run's finally block and Collector.close (SpecShutdown) *)

\* what one await of a provider's close() yields
CloseOutcomes == {"returned", "raised"}

\* `finally: await collector.close()` once collector.run() has returned
CloseCall ==
    /\ rpc = "returned"
    /\ close_pc = "none"
    /\ close_calls' = [p \in Range(providers) |-> 0]
    /\ IF providers = << >>
       THEN close_pc' = "returned" /\ close_i' = 0
       ELSE close_pc' = "closing" /\ close_i' = 1
    /\ UNCHANGED <<collVars, seen, trackVars, thrVars, openaiVars, otherVars>>

\* `await p.close()` for the provider the loop is at, and the loop's next test;
\* an exception of p.close() is not caught and leaves Collector.close
CloseProvider(o) ==
    /\ close_pc = "closing"
    /\ close_calls' = [close_calls EXCEPT ![providers[close_i]] = @ + 1]
    /\ IF o = "raised"
       THEN close_pc' = "raised" /\ close_i' = close_i
       ELSE /\ close_i' = close_i + 1
            /\ close_pc' = IF close_i = Len(providers) THEN "returned" ELSE "closing"
    /\ UNCHANGED <<collVars, seen, trackVars, thrVars, openaiVars, otherVars>>

CloseSteps ==
    \/ CloseCall
    \/ \E o \in CloseOutcomes : CloseProvider(o)

NextShutdown ==
    \/ NextMulti
    \/ CloseSteps

SpecShutdown == InitMulti /\ [][NextShutdown]_vars

-----------------------------------------------------------------------------
(* provider/openai.py: fetch_usage over the usage endpoints (SpecOpenAI) *)

\* len(USAGE_ENDPOINTS)
NEndpoints == 7

\* what the usage API answers to one endpoint's request
Responses ==
    {"transport_error", "forbidden", "http_error", "parse_error", "no_data", "data"}

\* _fetch_endpoint_usage on one response: client.get raises on a transport
\* failure, a 403 returns the records so far, raise_for_status raises on any
\* other error status, resp.json() raises on a body that does not parse
_fetch_endpoint_usage(resp) ==
    CASE resp = "transport_error" -> Raised
      [] resp = "forbidden" -> Returned(<< >>)
      [] resp = "http_error" -> Raised
      [] resp = "parse_error" -> Raised
      [] resp = "no_data" -> Returned(<< >>)
      [] resp = "data" -> Returned(<<URecent>>)

\* fetch_usage is called by the usage stage of provider p
FetchUsageCall(p) ==
    /\ rpc = "gather"
    /\ tpc[p] = "fetch_usage"
    /\ ep_cycle # cycle
    /\ ep_cycle' = cycle
    /\ ep_i' = 1
    /\ ep_records' = << >>
    /\ ep_failed' = {}
    /\ UNCHANGED <<collVars, seen, trackVars, thrVars, shutVars, otherVars>>

\* one endpoint task ends; gather(..., return_exceptions=True) keeps its result
\* and the loop over the results skips an exception and extends the records
EndpointAnswers(p, resp) ==
    /\ tpc[p] = "fetch_usage"
    /\ ep_cycle = cycle
    /\ ep_i <= NEndpoints
    /\ ep_i' = ep_i + 1
    /\ LET result == _fetch_endpoint_usage(resp)
       IN  IF result.raises
           THEN ep_failed' = ep_failed \cup {resp} /\ ep_records' = ep_records
           ELSE ep_failed' = ep_failed /\ ep_records' = ep_records \o result.records
    /\ UNCHANGED ep_cycle
    /\ UNCHANGED <<collVars, seen, trackVars, thrVars, shutVars, otherVars>>

\* `return records`, and the usage stage of the collector resumed with them
FetchUsageReturns(p) ==
    /\ ep_cycle = cycle
    /\ ep_i = NEndpoints + 1
    /\ UsageStep(p, Returned(ep_records))

NextOpenAI ==
    \/ \E p \in Range(providers) : FetchUsageCall(p)
    \/ \E p \in Range(providers) : \E resp \in Responses : EndpointAnswers(p, resp)
    \/ \E p \in Range(providers) : FetchUsageReturns(p)
    \/ \E p \in Range(providers) : MultiCostStage(p)
    \/ RunSteps
    \/ Stop

SpecOpenAI == Init /\ [][NextOpenAI]_vars

-----------------------------------------------------------------------------
(* metrics.py: the registry and register_provider (SpecSink) *)

\* the families MetricsUpdater.__init__ registers
SelfFamilies ==
    {"robotheus_scrape_duration_seconds", "robotheus_scrape_errors_total",
     "robotheus_last_scrape_success_timestamp_seconds"}

\* the names of the three families create_provider_metrics builds
FamilyNames(provider) ==
    {"robotheus_" \o provider \o "_requests_total",
     "robotheus_" \o provider \o "_tokens_total",
     "robotheus_" \o provider \o "_cost_usd_total"}

\* create_provider_metrics: [registry, exc]; Counter(..., registry=registry)
\* raises ValueError (duplicated timeseries) for a name the registry holds
create_provider_metrics(reg, provider) ==
    IF FamilyNames(provider) \cap reg # {}
    THEN [registry |-> reg, exc |-> "ValueError"]
    ELSE [registry |-> reg \cup FamilyNames(provider), exc |-> "none"]

\* faulty variant: the families are created whether or not the name is registered
register_provider_unguarded(pm, reg, provider_name) ==
    LET created == create_provider_metrics(reg, provider_name)
    IN  [provider_metrics |-> IF created.exc = "none" THEN pm \cup {provider_name} ELSE pm,
         registry |-> created.registry,
         exc |-> created.exc]

\* register_provider on pm = keys of self._provider_metrics: [provider_metrics, registry, exc]
register_provider(pm, reg, provider_name) ==
    IF provider_name \notin pm
    THEN LET created == create_provider_metrics(reg, provider_name)
         IN  [provider_metrics |-> IF created.exc = "none" THEN pm \cup {provider_name} ELSE pm,
              registry |-> created.registry,
              exc |-> created.exc]
    ELSE [provider_metrics |-> pm, registry |-> reg, exc |-> "none"]

\* update_cost as metrics.py defines it, on the cost counter
update_cost(cost, record) == Inc(cost, CostLabels(record), record.amount_usd)

\* provider names passed to a MetricsUpdater
SinkNames == {"openai", "mock"}

SinkUsageRecords == {ReportedBy(p, URecent) : p \in SinkNames}

SinkCostRecords == {ReportedBy(p, CostNext) : p \in SinkNames}

\* what a direct call on the sink leaves alone
SinkFrame ==
    /\ UNCHANGED <<clock, providers, last_scrape, stop_event, rpc, start_time,
                   end_time, now, tpc, had_error, scrape_errors, scrape_duration,
                   last_scrape_success, cycle, usage_applied, usage_calls, skipped,
                   rejected, cost_failed, cost_reported, evictions, fetch_raised,
                   snap, stopped_at>>
    /\ UNCHANGED <<seen, trackVars, thrVars, shutVars, openaiVars, mainVars, dedupVars, slowVars, resolveVars, histVars>>

SkRegisterProvider(provider_name) ==
    /\ sk_n < MaxSinkCalls
    /\ LET r == register_provider(provider_metrics, registry, provider_name)
       IN  /\ provider_metrics' = r.provider_metrics
           /\ registry' = r.registry
           /\ sk_ret' = IF r.exc = "none" THEN "None" ELSE r.exc
    /\ sk_n' = sk_n + 1
    /\ sk_op' = "register_provider"
    /\ sk_args' = provider_name
    /\ UNCHANGED <<requests_total, tokens_total, cost_usd_total>>
    /\ SinkFrame

SkUpdateUsage(record) ==
    /\ sk_n < MaxSinkCalls
    /\ IF record.provider \notin provider_metrics
       THEN /\ sk_ret' = "KeyError"
            /\ UNCHANGED <<requests_total, tokens_total>>
       ELSE LET sink == update_usage([requests_total |-> requests_total,
                                      tokens_total |-> tokens_total], record)
            IN  /\ requests_total' = sink.requests_total
                /\ tokens_total' = sink.tokens_total
                /\ sk_ret' = "None"
    /\ sk_n' = sk_n + 1
    /\ sk_op' = "update_usage"
    /\ sk_args' = record.provider
    /\ UNCHANGED <<provider_metrics, registry, cost_usd_total>>
    /\ SinkFrame

SkUpdateCost(record) ==
    /\ sk_n < MaxSinkCalls
    /\ IF record.provider \notin provider_metrics
       THEN /\ sk_ret' = "KeyError"
            /\ UNCHANGED cost_usd_total
       ELSE /\ cost_usd_total' = update_cost(cost_usd_total, record)
            /\ sk_ret' = "None"
    /\ sk_n' = sk_n + 1
    /\ sk_op' = "update_cost"
    /\ sk_args' = record.provider
    /\ UNCHANGED <<provider_metrics, registry, requests_total, tokens_total>>
    /\ SinkFrame

\* MetricsUpdater(registry=CollectorRegistry())
InitSink ==
    /\ CollectorIdle
    /\ seen = EmptyMap
    /\ TrackIdle
    /\ ThreadsIdle
    /\ ShutIdle
    /\ OpenAIIdle
    /\ MainIdle
    /\ DedupIdle
    /\ SlowIdle
    /\ ResolveIdle
    /\ HistIdle
    /\ registry = SelfFamilies
    /\ sk_n = 0
    /\ sk_op = "none"
    /\ sk_args = "none"
    /\ sk_ret = "none"

NextSink ==
    \/ \E name \in SinkNames : SkRegisterProvider(name)
    \/ \E record \in SinkUsageRecords : SkUpdateUsage(record)
    \/ \E record \in SinkCostRecords : SkUpdateCost(record)

SpecSink == InitSink /\ [][NextSink]_vars

-----------------------------------------------------------------------------
(* __main__.py: main (SpecMain) *)

\* faulty variant: an empty provider list passes the check
NoProviders_never(ps) == FALSE

\* `if not providers:`
NoProviders(ps) == ps = << >>

NoProvidersMessage == "No providers configured. Set OPENAI_API_KEY environment variable."

\* what main leaves alone before the collector runs
MainFrame ==
    /\ UNCHANGED <<clock, last_scrape, stop_event, start_time, end_time, now,
                   requests_total, tokens_total, cost_usd_total, scrape_errors,
                   scrape_duration, last_scrape_success, cycle, usage_applied,
                   usage_calls, skipped, rejected, cost_failed, cost_reported,
                   evictions, stopped_at>>
    /\ UNCHANGED <<seen, trackVars, thrVars, shutVars, openaiVars, dedupVars, slowVars, resolveVars, histVars>>
    /\ UNCHANGED <<sk_n, sk_op, sk_args, sk_ret>>

\* load_config, MetricsUpdater(), RecordTracker(), and the provider list built
\* from the configuration: OpenAI is registered and appended when it is enabled
MainSetup(openai_enabled) ==
    /\ m_pc = "setup"
    /\ IF openai_enabled
       THEN LET r == register_provider({}, SelfFamilies, "openai")
            IN  /\ provider_metrics' = r.provider_metrics
                /\ registry' = r.registry
                /\ providers' = <<"openai">>
       ELSE /\ provider_metrics' = {}
            /\ registry' = SelfFamilies
            /\ providers' = << >>
    /\ m_pc' = "check"
    /\ UNCHANGED <<rpc, tpc, had_error, fetch_raised, snap, http_server, exit_code, stderr>>
    /\ MainFrame

\* `if not providers: raise SystemExit(message)`: the interpreter writes the
\* message to stderr and the process ends with status 1
MainCheckProviders ==
    /\ m_pc = "check"
    /\ IF NoProviders(providers)
       THEN /\ m_pc' = "exited"
            /\ exit_code' = 1
            /\ stderr' = NoProvidersMessage
       ELSE /\ m_pc' = "serve"
            /\ UNCHANGED <<exit_code, stderr>>
    /\ UNCHANGED <<providers, provider_metrics, registry, rpc, tpc, had_error,
                   fetch_raised, snap, http_server>>
    /\ MainFrame

\* start_http_server(port, addr=host); an OSError of the bind is not caught
MainServe(o) ==
    /\ m_pc = "serve"
    /\ IF o = "raised"
       THEN /\ m_pc' = "exited"
            /\ exit_code' = 1
            /\ stderr' = "Traceback"
            /\ UNCHANGED http_server
       ELSE /\ m_pc' = "collector"
            /\ http_server' = TRUE
            /\ UNCHANGED <<exit_code, stderr>>
    /\ UNCHANGED <<providers, provider_metrics, registry, rpc, tpc, had_error,
                   fetch_raised, snap>>
    /\ MainFrame

\* Collector(providers, ...) and asyncio.run(_run()) up to collector.run()
MainCollector ==
    /\ m_pc = "collector"
    /\ m_pc' = "run"
    /\ rpc' = "start"
    /\ tpc' = [p \in Range(providers) |-> "idle"]
    /\ had_error' = [p \in Range(providers) |-> FALSE]
    /\ fetch_raised' = [p \in Range(providers) |-> [usage |-> FALSE, cost |-> FALSE]]
    /\ snap' = [p \in Range(providers) |-> SinkSnapshot(p)]
    /\ UNCHANGED <<providers, provider_metrics, registry, http_server, exit_code, stderr>>
    /\ MainFrame

\* asyncio.run returns once close() is over, or passes on what close() raised
MainExit ==
    /\ m_pc = "run"
    /\ close_pc \in {"returned", "raised"}
    /\ m_pc' = "exited"
    /\ exit_code' = IF close_pc = "returned" THEN 0 ELSE 1
    /\ stderr' = IF close_pc = "returned" THEN "" ELSE "Traceback"
    /\ UNCHANGED <<providers, provider_metrics, registry, rpc, tpc, had_error,
                   fetch_raised, snap, http_server>>
    /\ MainFrame

MainSteps ==
    \/ \E openai_enabled \in BOOLEAN : MainSetup(openai_enabled)
    \/ MainCheckProviders
    \/ \E o \in {"returned", "raised"} : MainServe(o)
    \/ MainCollector
    \/ MainExit

InitMain ==
    /\ CollectorIdle
    /\ seen = EmptyMap
    /\ TrackIdle
    /\ ThreadsIdle
    /\ ShutIdle
    /\ OpenAIIdle
    /\ SinkIdle
    /\ DedupIdle
    /\ SlowIdle
    /\ ResolveIdle
    /\ HistIdle
    /\ m_pc = "setup"
    /\ http_server = FALSE
    /\ exit_code = -1
    /\ stderr = ""

NextMain ==
    \/ MainSteps
    \/ m_pc = "run" /\ NextShutdown

SpecMain == InitMain /\ [][NextMain]_vars

-----------------------------------------------------------------------------
(* dedup.py: DeduplicationStore (SpecDedup) *)

\* f"{provider}|{model}|{project}|{api_key}|{bucket_start}"
make_key(provider, model, project, api_key, bucket_start) ==
    provider \o "|" \o model \o "|" \o project \o "|" \o api_key \o "|"
        \o ToString(bucket_start)

\* is_new, the body run while self._lock is held: [ret, seen]
is_new(sn, provider, model, project, api_key, bucket_start) ==
    LET key == make_key(provider, model, project, api_key, bucket_start)
    IN  IF key \in sn
        THEN [ret |-> FALSE, seen |-> sn]
        ELSE [ret |-> TRUE, seen |-> sn \cup {key}]

\* argument values; some hold the separator of the key format
DedupArgs ==
    [provider : {"openai"}, model : {"gpt-4o"}, project : {"p", "p|k"},
     api_key : {"k", "k|k"}, bucket_start : {1000, 5000}]

DdIsNew(a) ==
    /\ d_n < MaxDedupCalls
    /\ LET r == is_new(d_seen, a.provider, a.model, a.project, a.api_key, a.bucket_start)
       IN  /\ d_seen' = r.seen
           /\ d_ret' = IF r.ret THEN "True" ELSE "False"
    /\ d_n' = d_n + 1
    /\ d_args' = a
    /\ d_passed' = IF d_n = 0 THEN {} ELSE d_passed \cup {d_args}
    /\ UNCHANGED <<collVars, seen, trackVars, thrVars, shutVars, openaiVars, mainVars, sinkVars, slowVars, resolveVars, histVars>>

\* DeduplicationStore()
InitDedup ==
    /\ CollectorIdle
    /\ seen = EmptyMap
    /\ TrackIdle
    /\ ThreadsIdle
    /\ RestIdle

NextDedup == \E a \in DedupArgs : DdIsNew(a)

SpecDedup == InitDedup /\ [][NextDedup]_vars

-----------------------------------------------------------------------------
(* A RecordTracker and a DeduplicationStore given the same calls (SpecPair) *)

\* tracker.is_new_usage(provider, model, project, api_key_id, time_frame_start)
\* and store.is_new(provider, model, project, api_key, bucket_start) with the
\* same five values
PairIsNew(a) ==
    /\ tr_n < MaxCalls
    /\ tr_n' = tr_n + 1
    /\ tr_op' = "is_new_usage"
    /\ tr_args' = a
    /\ LET r == is_new_usage(seen, a.provider, a.model, a.project, a.api_key_id,
                              a.time_frame_start)
       IN  /\ seen' = r.seen
           /\ tr_ret' = BoolStr(r.ret)
    /\ tr_num' = 0
    /\ tr_called' = tr_called \cup {a}
    /\ tr_cut' = Put(tr_cut, UsageKeyOfArgs(a), 0)
    /\ tr_again' = Get(tr_cut, UsageKeyOfArgs(a), -1)
    /\ UNCHANGED tr_cost
    /\ LET r == is_new(d_seen, a.provider, a.model, a.project, a.api_key_id,
                        a.time_frame_start)
       IN  /\ d_seen' = r.seen
           /\ d_ret' = BoolStr(r.ret)
    /\ d_n' = d_n + 1
    /\ d_args' = [provider |-> a.provider, model |-> a.model, project |-> a.project,
                  api_key |-> a.api_key_id, bucket_start |-> a.time_frame_start]
    /\ d_passed' = IF d_n = 0 THEN {} ELSE d_passed \cup {d_args}
    /\ UNCHANGED <<collVars, thrVars, shutVars, openaiVars, mainVars, sinkVars,
                   slowVars, resolveVars, histVars>>

\* tracker = RecordTracker(); store = DeduplicationStore()
InitPair ==
    /\ CollectorIdle
    /\ seen = EmptyMap
    /\ TrackIdle
    /\ ThreadsIdle
    /\ RestIdle

NextPair == \E a \in UsageArgs : PairIsNew(a)

SpecPair == InitPair /\ [][NextPair]_vars

-----------------------------------------------------------------------------
(* provider/openai.py: _resolve_project_name (SpecResolve) *)

Resolvers == 1..NResolvers

\* project ids found in usage results; "unknown" stands in for a missing id
ProjectIds == {"", "unknown", "proj-1"}

\* what the projects API answers: a 200 with a name, another status, or the
\* request or the parsing of its body raises
ProjectResponses == {"ok", "status", "exception"}

\* the name the projects API holds for an id
NameOf(id) == "name of " \o id

\* faulty variant: the cache is not looked at again once the lock is held
recheck_skipped(names, project_id) == FALSE

\* `if project_id in self._project_names` under the lock
recheck(names, project_id) == project_id \in DOMAIN names

\* a call of task t is over and returns name
RsReturn(t, name) ==
    /\ rs_ret' = [rs_ret EXCEPT ![t] = name]
    /\ rs_returns' = rs_returns \cup {[id |-> rs_id'[t], name |-> name]}
    /\ rs_pc' = [rs_pc EXCEPT ![t] = "idle"]

\* the body of `async with self._project_lock` up to its first await, run by
\* task t once it holds the lock
RsLocked(t) ==
    IF recheck(rs_names, rs_id'[t])
    THEN /\ RsReturn(t, rs_names[rs_id'[t]])
         /\ rs_lock' = 0
         /\ UNCHANGED rs_requests
    ELSE /\ rs_lock' = t
         /\ rs_pc' = [rs_pc EXCEPT ![t] = "request"]
         /\ rs_requests' = Inc(rs_requests, rs_id'[t], 1)
         /\ UNCHANGED <<rs_ret, rs_returns>>

ResolveFrame == UNCHANGED <<collVars, seen, trackVars, thrVars, shutVars, openaiVars, mainVars, sinkVars, dedupVars, slowVars, histVars>>

\* task t calls _resolve_project_name(project_id) and runs to its first await
\* or to its return; Lock.acquire does not suspend when the lock is free
RsCall(t, project_id) ==
    /\ rs_pc[t] = "idle"
    /\ rs_calls[t] < MaxResolves
    /\ rs_calls' = [rs_calls EXCEPT ![t] = @ + 1]
    /\ rs_id' = [rs_id EXCEPT ![t] = project_id]
    /\ IF project_id \in {"", "unknown"}
       THEN /\ RsReturn(t, "unknown")
            /\ rs_waited' = rs_waited \ {t}
            /\ UNCHANGED <<rs_lock, rs_requests>>
       ELSE IF project_id \in DOMAIN rs_names
       THEN /\ RsReturn(t, rs_names[project_id])
            /\ rs_waited' = rs_waited \ {t}
            /\ UNCHANGED <<rs_lock, rs_requests>>
       ELSE IF rs_lock = 0
       THEN /\ RsLocked(t)
            /\ rs_waited' = rs_waited \ {t}
       ELSE /\ rs_pc' = [rs_pc EXCEPT ![t] = "lock_wait"]
            /\ rs_waited' = rs_waited \cup {t}
            /\ UNCHANGED <<rs_lock, rs_requests, rs_ret, rs_returns>>
    /\ UNCHANGED <<rs_names, rs_failed>>
    /\ ResolveFrame

\* the lock is released and task t, waiting for it, gets it
RsAcquire(t) ==
    /\ rs_pc[t] = "lock_wait"
    /\ rs_lock = 0
    /\ rs_id' = rs_id
    /\ RsLocked(t)
    /\ UNCHANGED <<rs_names, rs_calls, rs_failed, rs_waited>>
    /\ ResolveFrame

\* the project request of task t is answered; the lock is released on return
RsResponse(t, resp) ==
    /\ rs_pc[t] = "request"
    /\ rs_id' = rs_id
    /\ IF resp = "ok"
       THEN /\ rs_names' = Put(rs_names, rs_id[t], NameOf(rs_id[t]))
            /\ RsReturn(t, NameOf(rs_id[t]))
            /\ UNCHANGED rs_failed
       ELSE /\ RsReturn(t, "unknown")
            /\ rs_failed' = rs_failed \cup {rs_id[t]}
            /\ UNCHANGED rs_names
    /\ rs_lock' = 0
    /\ UNCHANGED <<rs_calls, rs_requests, rs_waited>>
    /\ ResolveFrame

\* OpenAIProvider(api_key=...)
InitResolve ==
    /\ CollectorIdle
    /\ seen = EmptyMap
    /\ TrackIdle
    /\ ThreadsIdle
    /\ ShutIdle
    /\ OpenAIIdle
    /\ MainIdle
    /\ SinkIdle
    /\ DedupIdle
    /\ SlowIdle
    /\ HistIdle
    /\ rs_names = << >>
    /\ rs_lock = 0
    /\ rs_pc = [t \in Resolvers |-> "idle"]
    /\ rs_id = [t \in Resolvers |-> ""]
    /\ rs_ret = [t \in Resolvers |-> "none"]
    /\ rs_calls = [t \in Resolvers |-> 0]
    /\ rs_requests = << >>
    /\ rs_failed = {}
    /\ rs_returns = {}
    /\ rs_waited = {}

NextResolve ==
    \/ \E t \in Resolvers : \E project_id \in ProjectIds : RsCall(t, project_id)
    \/ \E t \in Resolvers : RsAcquire(t)
    \/ \E t \in Resolvers : \E resp \in ProjectResponses : RsResponse(t, resp)

SpecResolve == InitResolve /\ [][NextResolve]_vars

-----------------------------------------------------------------------------
(* Properties of the record tracker (SpecThreads, SpecTracker) *)

SameCall(t) == {u \in Threads : th_args[u] = th_args[t]}

\* C3: of the threads that call is_new_usage with the identical key on a
\* tracker that does not hold it, at most one has been answered True at any
\* moment, and once all of them have returned exactly one was answered True
\* and every other one False.
C3_OneCallerAdmitted ==
    \A t \in DOMAIN th_args :
        /\ Cardinality({u \in SameCall(t) : th_ret[u] = "True"}) <= 1
        /\ (\A u \in SameCall(t) : th_pc[u] = "done")
              => /\ Cardinality({u \in SameCall(t) : th_ret[u] = "True"}) = 1
                 /\ \A u \in SameCall(t) : th_ret[u] \in {"True", "False"}

\* every thread passed the same key and all have returned
C3_Witness ==
    /\ DOMAIN th_args = Threads
    /\ \A t \in Threads : th_args[t] = th_args[1] /\ th_pc[t] = "done"
    /\ Cardinality({t \in Threads : th_ret[t] = "False"}) = NThreads - 1

\* C4: is_new_usage answers False for arguments it was already called with
\* since their key was last evicted, and True for arguments whose key the
\* tracker does not hold.
C4_FirstTrueThenFalse ==
    [][\A a \in UsageArgs :
        TrIsNewUsage(a)
        => /\ a \in tr_called => tr_ret' = "False"
           /\ UsageKeyOfArgs(a) \notin DOMAIN seen => tr_ret' = "True"
           /\ UsageKeyOfArgs(a) \in DOMAIN seen']_vars

\* the same arguments passed twice to a fresh tracker: the second answer is False
C4_Witness ==
    /\ tr_n = 2
    /\ tr_op = "is_new_usage"
    /\ tr_called = {tr_args}
    /\ DOMAIN seen = {UsageKeyOfArgs(tr_args)}
    /\ tr_ret = "False"

\* C5 as stated: cost_delta returns amount and stores it as the baseline when
\* the cost key is absent, and returns max(amount - v, 0) when the key is
\* present with last-applied value v.
C5_CostDelta ==
    [][\A a \in CostArgs : \A amount \in Amounts :
        TrCostDelta(a, amount)
        => /\ tr_ret' = "int"
           /\ IF CostKeyOfArgs(a) \in DOMAIN seen
              THEN tr_num' = Max(amount - seen[CostKeyOfArgs(a)], 0)
              ELSE /\ tr_num' = amount
                   /\ CostKeyOfArgs(a) \in DOMAIN seen'
                   /\ seen'[CostKeyOfArgs(a)] = amount]_vars

-----------------------------------------------------------------------------
(* Properties of the collection loop (Spec) *)

Registered(record) == record.provider \in provider_metrics

InTracker(k) == IF k \in DOMAIN seen THEN 1 ELSE 0

UsageKeys == (DOMAIN usage_applied) \cup (DOMAIN seen) \cup (DOMAIN evictions)

\* C1 as stated: every finalized usage window key a provider reports is counted
\* exactly once; update_usage is never applied a second time for the same key.
C1_NeverCountedTwice ==
    \A k \in DOMAIN usage_applied : usage_applied[k] <= 1

\* C1, amended: a usage window key is counted once per residence in the tracker.
\* The number of update_usage calls for a key never exceeds the number of times
\* evict_before removed the key plus one if the key is in the tracker now, and
\* equals it when the provider is registered with the sink.
C1_CountedOncePerResidence ==
    \A k \in UsageKeys :
        /\ Get(usage_applied, k, 0) <= Get(evictions, k, 0) + InTracker(k)
        /\ provider_metrics = {"openai"}
              => Get(usage_applied, k, 0) = Get(evictions, k, 0) + InTracker(k)

\* a window counted in the first cycle, evicted at the start of the second and
\* counted again when the provider reports it again
C1_Witness ==
    \E k \in DOMAIN usage_applied :
        /\ usage_applied[k] = 2
        /\ Get(evictions, k, 0) = 1
        /\ k \in DOMAIN seen

\* C2: a usage or cost record whose time_frame_end is greater than the cycle's
\* now is never forwarded: no update_usage call is made for it, and it does not
\* get past the check to the cost admission and update_cost.
C2_IncompleteNeverForwarded ==
    /\ \A c \in DOMAIN usage_calls : c.record.time_frame_end <= c.now
    /\ \A c \in cost_failed : c.record.time_frame_end <= c.now
    /\ \A c \in skipped :
          /\ c.record.time_frame_end > c.now
          /\ [record |-> c.record, now |-> c.now] \notin DOMAIN usage_calls
          /\ [record |-> c.record, now |-> c.now] \notin cost_failed

\* a cycle has ended in which an open usage window and an open cost window
\* were reported and nothing reached the sink
C2_Witness ==
    /\ rpc = "wait"
    /\ \E c \in skipped : c.kind = "usage" /\ c.record.time_frame_end > now
    /\ \E c \in skipped : c.kind = "cost" /\ c.record.time_frame_end > now
    /\ requests_total = EmptyMap
    /\ cost_usd_total = EmptyMap

\* C6 as stated: a finalized cost window reported before with amount v and
\* reported again with amount a > v raises the cost counter of its
\* (provider, project) by a - v in that cycle; a report that is not larger
\* leaves the counter alone.
C6_CostDeltaApplied ==
    [][\A p \in Range(providers) : \A r \in CostUniverse :
        (/\ CostStep(p, Returned(<<r>>))
         /\ ~Incomplete(r, now)
         /\ Registered(r)
         /\ CostKeyOf(r) \in DOMAIN cost_reported)
        => IF r.amount_usd > cost_reported[CostKeyOf(r)]
           THEN /\ CostLabels(r) \in DOMAIN cost_usd_total'
                /\ cost_usd_total'[CostLabels(r)] =
                       Get(cost_usd_total, CostLabels(r), 0)
                         + (r.amount_usd - cost_reported[CostKeyOf(r)])
           ELSE cost_usd_total' = cost_usd_total]_vars

\* C7 as stated: after a collection that fetched one finalized cost record of
\* amount A on a fresh tracker and sink the cost counter reads A, and the same
\* collection run again leaves it at A.
C7_CostCountedOnce ==
    [][\A p \in Range(providers) : \A r \in CostUniverse :
        (/\ CostStep(p, Returned(<<r>>))
         /\ ~Incomplete(r, now)
         /\ Registered(r)
         /\ \/ cost_reported = EmptyMap
            \/ Get(cost_reported, CostKeyOf(r), 0) = r.amount_usd)
        => /\ CostLabels(r) \in DOMAIN cost_usd_total'
           /\ cost_usd_total'[CostLabels(r)] = r.amount_usd]_vars

\* C8: a usage stage that fetched one finalized usage record of a registered
\* provider on a fresh tracker and sink leaves the request, input-token and
\* output-token counters of the record's labels at the record's counts; when
\* the record's key is already in the tracker the counters are unchanged.
C8_UsageCountedOnce ==
    [][\A p \in Range(providers) : \A r \in UsageUniverse :
        (/\ UsageStep(p, Returned(<<r>>))
         /\ ~Incomplete(r, now)
         /\ Registered(r))
        => IF UsageKeyOf(r) \in DOMAIN seen
           THEN /\ requests_total' = requests_total
                /\ tokens_total' = tokens_total
           ELSE /\ requests_total = EmptyMap /\ tokens_total = EmptyMap
                   => /\ requests_total' =
                            Put(EmptyMap, UsageLabels(r), r.request_count)
                      /\ DOMAIN tokens_total' =
                            {TokenLabels(r, "input"), TokenLabels(r, "output")}
                      /\ tokens_total'[TokenLabels(r, "input")] = r.input_tokens
                      /\ tokens_total'[TokenLabels(r, "output")] = r.output_tokens
                /\ UsageLabels(r) \in DOMAIN requests_total'
                /\ requests_total'[UsageLabels(r)] =
                       Get(requests_total, UsageLabels(r), 0) + r.request_count]_vars

\* the second cycle has re-reported the record counted in the first: the
\* tracker rejected it and the counters still read the record's counts
C8_Witness ==
    /\ cycle = 2
    /\ tpc["openai"] = "fetch_costs"
    /\ rejected = {[record |-> URecent, now |-> now]}
    /\ usage_calls = EmptyMap
    /\ usage_applied = Put(EmptyMap, UsageKeyOf(URecent), 1)
    /\ requests_total = Put(EmptyMap, UsageLabels(URecent), URecent.request_count)
    /\ tokens_total[TokenLabels(URecent, "input")] = URecent.input_tokens
    /\ tokens_total[TokenLabels(URecent, "output")] = URecent.output_tokens

\* C9: when fetch_usage and fetch_costs both raised, the provider's task is
\* done with the usage and the cost error counter each one higher than when it
\* started, the duration observed, and last_scrape_success as it was.
C9_BothStagesFail ==
    \A p \in Range(providers) :
        (tpc[p] = "done" /\ fetch_raised[p].usage /\ fetch_raised[p].cost)
        => /\ Get(scrape_errors, <<p, "usage">>, 0) = snap[p].usage_errors + 1
           /\ Get(scrape_errors, <<p, "cost">>, 0) = snap[p].cost_errors + 1
           /\ last_scrape_success = snap[p].success
           /\ had_error[p]

C9_Witness ==
    /\ tpc["openai"] = "done"
    /\ fetch_raised["openai"].usage
    /\ fetch_raised["openai"].cost
    /\ scrape_errors = [k \in {<<"openai", "usage">>, <<"openai", "cost">>} |-> 1]
    /\ last_scrape_success = EmptyMap
    /\ rpc = "wait"

\* C10 as stated: when the usage stage raised, fetch_costs is still called and
\* every finalized cost record it returns is processed (none is cut short by an
\* exception of the collector's own making); when the cost stage raised, the
\* usage records applied in this cycle are still in the tracker and the sink.
C10_StagesIndependent ==
    \A p \in Range(providers) :
        tpc[p] = "done" =>
            /\ (Get(scrape_errors, <<p, "usage">>, 0) > snap[p].usage_errors
                 /\ ~fetch_raised[p].cost) => cost_failed = {}
            /\ Get(scrape_errors, <<p, "cost">>, 0) > snap[p].cost_errors
                 => \A c \in DOMAIN usage_calls :
                       /\ UsageKeyOf(c.record) \in DOMAIN seen
                       /\ Get(requests_total, UsageLabels(c.record), 0)
                            >= c.record.request_count

-----------------------------------------------------------------------------
(* Properties of the collection loop over several providers (SpecMultiLive) *)

\* both fetches of q raised in the cycle in flight
FailedBoth(q) ==
    /\ rpc \in {"gather", "wait"}
    /\ tpc[q] = "done"
    /\ fetch_raised[q].usage
    /\ fetch_raised[q].cost

\* the usage window provider p reports
Reported(p) == ReportedBy(p, URecent)

\* the usage stage of p has run in this cycle and its fetch returned
UsageReturned(p) == tpc[p] \in {"fetch_costs", "done"} /\ ~fetch_raised[p].usage

OtherProviderUnharmed(q, p) ==
    \* the window p reported is in the tracker and counted once per admission
    /\ UsageReturned(p)
          => /\ UsageKeyOf(Reported(p)) \in DOMAIN seen
             /\ Get(usage_applied, UsageKeyOf(Reported(p)), 0) = 1
             /\ Get(requests_total, UsageLabels(Reported(p)), 0)
                    = Reported(p).request_count
             /\ Get(scrape_errors, <<p, "usage">>, 0) = snap[p].usage_errors
    \* a task of p that met no exception reports success and counts no error
    /\ (tpc[p] = "done" /\ ~had_error[p])
          => /\ Get(scrape_errors, <<p, "usage">>, 0) = snap[p].usage_errors
             /\ Get(scrape_errors, <<p, "cost">>, 0) = snap[p].cost_errors
             /\ Get(last_scrape_success, p, 0) = clock
    \* once gather has returned, p's task ran to its end
    /\ rpc = "wait" => tpc[p] = "done"

\* C11: in a cycle where both stages of provider q failed, every other provider
\* p still has its finalized, newly admitted usage window applied to the sink
\* exactly once, is charged no error of q's, reports success when its own
\* stages met no exception, and the cycle goes on to advance last_scrape to
\* end_time.
C11_FailureIsolated ==
    /\ [](\A q \in Range(providers) : \A p \in Range(providers) \ {q} :
            FailedBoth(q) => OtherProviderUnharmed(q, p))
    /\ (rpc = "gather" /\ \E q \in Range(providers) : FailedBoth(q))
          ~> (/\ rpc = "wait"
              /\ last_scrape = end_time
              /\ \E q \in Range(providers) : FailedBoth(q))

\* the first cycle has ended: both fetches of mock raised, openai's window was
\* counted and openai reported success
C11_Witness ==
    /\ rpc = "wait"
    /\ cycle = 1
    /\ last_scrape = end_time
    /\ DOMAIN tpc = {"openai", "mock"}
    /\ FailedBoth("mock")
    /\ ~had_error["openai"]
    /\ DOMAIN usage_calls = {[record |-> Reported("openai"), now |-> now]}
    /\ requests_total = Put(EmptyMap, UsageLabels(Reported("openai")), URecent.request_count)
    /\ last_scrape_success = Put(EmptyMap, "openai", clock)
    /\ Get(scrape_errors, <<"mock", "usage">>, 0) = 1

\* every provider task of the cycle has run to its end
AllDone == \A p \in Range(providers) : tpc[p] = "done"

\* C12: stop() only sets the event. run() returns only from the loop test at a
\* cycle boundary, and a cycle that was started has by then run every provider
\* task to its end and advanced last_scrape to its end_time; a stop that
\* arrives during the gather leaves run() in the gather until every task is
\* done, and the cycle then goes on to the advance of last_scrape.
C12_StopAtCycleBoundary ==
    /\ [](rpc = "returned" /\ cycle > 0 => AllDone /\ last_scrape = end_time)
    /\ [](rpc = "wait" => AllDone /\ last_scrape = end_time)
    /\ [][rpc' = "returned" /\ rpc # "returned" => rpc = "loop" /\ stop_event]_vars
    /\ [][rpc = "gather" /\ rpc' # "gather" => rpc' = "wait" /\ AllDone]_vars
    /\ (rpc = "gather" /\ stop_event)
          ~> (rpc = "returned" /\ AllDone /\ last_scrape = end_time)

\* stop() was called during the gather of the second cycle; run() has returned
\* after both providers' tasks ended and last_scrape was advanced
C12_Witness ==
    /\ rpc = "returned"
    /\ stopped_at = "gather"
    /\ cycle = 2
    /\ AllDone
    /\ last_scrape = end_time
    /\ \E c \in rejected : c.now = now

\* C13: once the event is set no cycle is started, the wait is left without
\* the interval elapsing (at once when the event was set during the cycle,
\* early when it is set during the wait), and run() returns, every fetch
\* terminating.
C13_StopEndsRun ==
    /\ [][stop_event => cycle' = cycle /\ clock' = clock]_vars
    /\ [][rpc = "wait" /\ stop_event /\ rpc' # "wait" => rpc' = "loop"]_vars
    /\ [](rpc = "returned" => stop_event)
    /\ stop_event ~> (rpc = "returned")

\* stop() was called during the wait after the first cycle: the wait ended with
\* the clock where it was and run() returned without a second cycle
C13_Witness ==
    /\ rpc = "returned"
    /\ stopped_at = "wait"
    /\ cycle = 1
    /\ cycle < MaxCycles
    /\ clock = T0
    /\ DOMAIN tpc = {"openai", "mock"}

-----------------------------------------------------------------------------
(* Properties of eviction and of the key format (SpecTracker) *)

\* C14: evict_before(cutoff) removes every usage and cost entry admitted with a
\* window-start below cutoff, keeps every entry admitted with a window-start at
\* or above cutoff together with its stored start, and returns the number of
\* entries removed; with no entry below cutoff it returns 0 and the tracker is
\* unchanged.
C14_EvictBefore ==
    [][\A cutoff \in Cutoffs :
        TrEvictBefore(cutoff)
        => /\ \A a \in UsageArgs :
                UsageKeyOfArgs(a) \in DOMAIN seen'
                    <=> (/\ UsageKeyOfArgs(a) \in DOMAIN seen
                         /\ a.time_frame_start >= cutoff)
           /\ \A a \in CostArgs :
                CostKeyOfArgs(a) \in DOMAIN seen'
                    <=> (/\ CostKeyOfArgs(a) \in DOMAIN seen
                         /\ a.time_frame_start >= cutoff)
           /\ DOMAIN seen' \subseteq DOMAIN seen
           /\ \A k \in DOMAIN seen' : seen'[k] = seen[k]
           /\ tr_ret' = "int"
           /\ tr_num' = Cardinality((DOMAIN seen) \ (DOMAIN seen'))
           /\ (\A k \in DOMAIN seen : seen[k] >= cutoff)
                 => tr_num' = 0 /\ seen' = seen]_vars

\* a usage entry and a cost entry were admitted, one with a window-start below
\* the cutoff and one with a window-start equal to a later cutoff; the sweep
\* removed exactly the older one
C14_Witness ==
    /\ tr_n = 3
    /\ tr_op = "evict_before"
    /\ tr_num = 1
    /\ Cardinality(DOMAIN seen) = 1
    /\ \E a \in CostArgs :
          /\ DOMAIN seen = {CostKeyOfArgs(a)}
          /\ seen[CostKeyOfArgs(a)] >= tr_args.cutoff

\* C15: is_new_usage for a key that was passed to the tracker before answers
\* True when an evict_before with a cutoff above the key's window-start was
\* made since (the key was forgotten), and False when every evict_before made
\* since had a cutoff at or below the window-start.
C15_ForgottenAfterEviction ==
    [][\A a \in UsageArgs :
        (/\ TrIsNewUsage(a)
         /\ UsageKeyOfArgs(a) \in DOMAIN tr_cut
         /\ tr_cut[UsageKeyOfArgs(a)] > 0)
        => IF a.time_frame_start < tr_cut[UsageKeyOfArgs(a)]
           THEN tr_ret' = "True"
           ELSE tr_ret' = "False"]_vars

\* admitted, swept with a cutoff above the window-start, and admitted again
C15_Witness ==
    /\ tr_n = 3
    /\ tr_op = "is_new_usage"
    /\ tr_again > tr_args.time_frame_start
    /\ tr_ret = "True"
    /\ DOMAIN seen = {UsageKeyOfArgs(tr_args)}

\* admitted, swept with a cutoff equal to the window-start, and rejected
C15_WitnessKept ==
    /\ tr_n = 3
    /\ tr_op = "is_new_usage"
    /\ tr_again = tr_args.time_frame_start
    /\ tr_ret = "False"
    /\ DOMAIN seen = {UsageKeyOfArgs(tr_args)}

-----------------------------------------------------------------------------
(* Properties of the cost baseline (SpecTracker) *)

\* C16 as stated: a cost_delta call returns a number and leaves as the baseline
\* of its key the larger of the old baseline and the amount; a call whose
\* amount is not above the baseline returns 0 and changes nothing.
C16_BaselineNeverDecreases ==
    [][\A a \in CostArgs : \A amount \in Amounts :
        TrCostDelta(a, amount)
        => /\ tr_ret' = "int"
           /\ CostKeyOfArgs(a) \in DOMAIN seen'
           /\ seen'[CostKeyOfArgs(a)] = Max(Get(seen, CostKeyOfArgs(a), 0), amount)
           /\ (CostKeyOfArgs(a) \in DOMAIN seen /\ amount <= seen[CostKeyOfArgs(a)])
                 => tr_num' = 0 /\ seen' = seen]_vars

\* C17 as stated: for every cost key, the deltas cost_delta has returned so far
\* add up to the largest amount passed for the key.
C17_DeltasSumToMax ==
    \A a \in DOMAIN tr_cost : tr_cost[a].sum = tr_cost[a].max

-----------------------------------------------------------------------------
(* Properties of the key format (SpecTracker) *)

\* the answer the tracker in state sn would give for usage arguments b
WouldAdmitUsage(sn, b) == UsageKeyOfArgs(b) \notin DOMAIN sn

\* the answer the tracker in state sn would give for cost arguments c
WouldAdmitCost(sn, c) == CostKeyOfArgs(c) \notin DOMAIN sn

\* C18 as stated: no cost key equals a usage key, so an is_new_usage call
\* changes the tracker's answer for no cost arguments and an is_new_cost call
\* changes it for no usage arguments.
C18_CostAndUsageKeysApart ==
    [][/\ \A a \in UsageArgs :
            TrIsNewUsage(a)
            => \A c \in CostArgs :
                  /\ CostKeyOfArgs(c) # UsageKeyOfArgs(a)
                  /\ WouldAdmitCost(seen', c) = WouldAdmitCost(seen, c)
       /\ \A c \in CostArgs :
            TrIsNewCost(c)
            => \A a \in UsageArgs :
                  /\ UsageKeyOfArgs(a) # CostKeyOfArgs(c)
                  /\ WouldAdmitUsage(seen', a) = WouldAdmitUsage(seen, a)]_vars

\* C19 as stated: an is_new_usage call changes the tracker's answer for no
\* usage arguments that differ from its own in at least one field.
C19_UsageTuplesApart ==
    [][\A a \in UsageArgs :
        TrIsNewUsage(a)
        => \A b \in UsageArgs \ {a} :
              WouldAdmitUsage(seen', b) = WouldAdmitUsage(seen, b)]_vars

\* C20 as stated: a cost_delta call returns a number measured against the
\* baseline of its own key alone (the full amount when that key is absent) and
\* changes the baseline of no cost arguments that differ from its own in at
\* least one field.
C20_CostTuplesApart ==
    [][\A a \in CostArgs : \A amount \in Amounts :
        TrCostDelta(a, amount)
        => /\ tr_ret' = "int"
           /\ CostKeyOfArgs(a) \notin DOMAIN seen => tr_num' = amount
           /\ \A b \in CostArgs \ {a} :
                 /\ WouldAdmitCost(seen', b) = WouldAdmitCost(seen, b)
                 /\ ~WouldAdmitCost(seen, b)
                       => seen'[CostKeyOfArgs(b)] = seen[CostKeyOfArgs(b)]]_vars

-----------------------------------------------------------------------------
(* Properties of shutdown (SpecShutdown) *)

\* C21 as stated: once Collector.close has ended, by returning or by an
\* exception, close() was called exactly once on every configured provider.
C21_EveryProviderClosedOnce ==
    close_pc \in {"returned", "raised"}
        => \A p \in Range(providers) : close_calls[p] = 1

-----------------------------------------------------------------------------
(* Properties of the OpenAI provider (SpecOpenAI) *)

\* the usage stage of p has ended in a cycle whose fetch_usage call is over
UsageStageOver(p) == ep_cycle = cycle /\ tpc[p] \in {"fetch_costs", "done"}

\* C22 as stated: when a usage endpoint met a transport or parse failure the
\* usage stage has counted a usage scrape error for the cycle, and fetch_usage
\* returned an empty sequence only when no endpoint had a failure.
C22_FetchUsageFailsOnError ==
    \A p \in Range(providers) :
        (UsageStageOver(p) /\ rpc = "gather" /\ ep_failed # {})
        => /\ Get(scrape_errors, <<p, "usage">>, 0) = snap[p].usage_errors + 1
           /\ fetch_raised[p].usage

-----------------------------------------------------------------------------
(* Properties of the process entry point (SpecMain) *)

\* C23: if no provider is configured the process exits with a non-zero status
\* and a message; the metrics HTTP server is never started and no collection
\* cycle runs.
C23_NoProviderNoService ==
    (m_pc \notin {"none", "setup"} /\ providers = << >>) =>
        /\ m_pc \in {"check", "exited"}
        /\ ~http_server
        /\ rpc = "none"
        /\ cycle = 0
        /\ (m_pc = "exited" => exit_code # 0 /\ stderr = NoProvidersMessage)

C23_Witness ==
    /\ m_pc = "exited"
    /\ providers = << >>
    /\ exit_code = 1
    /\ stderr = NoProvidersMessage
    /\ ~http_server
    /\ cycle = 0

-----------------------------------------------------------------------------
(* Properties of the metrics sink (SpecSink) *)

\* C24: register_provider called with a name that is already registered does
\* not raise, creates no metric family, and leaves the registered providers,
\* the counters and their values as they were.
C24_RegisterIdempotent ==
    [][\A name \in SinkNames :
          (name \in provider_metrics /\ SkRegisterProvider(name)) =>
              /\ sk_ret' = "None"
              /\ registry' = registry
              /\ provider_metrics' = provider_metrics
              /\ requests_total' = requests_total
              /\ tokens_total' = tokens_total
              /\ cost_usd_total' = cost_usd_total]_vars

\* a provider is registered, a usage record of it is counted, and it is
\* registered again
C24_Witness ==
    /\ sk_op = "register_provider"
    /\ sk_ret = "None"
    /\ sk_n >= 3
    /\ sk_args \in provider_metrics
    /\ \E l \in DOMAIN requests_total : l[1] = sk_args /\ requests_total[l] > 0

-----------------------------------------------------------------------------
(* Properties of the deduplication store (SpecDedup) *)

\* C25: over any sequence of is_new calls, a tuple (provider, model, project,
\* api_key, bucket_start) gets True on its first call and False on every later
\* call, whatever calls were made for tuples that differ from it in a field.
C25_FirstTrueThenFalse ==
    d_n > 0 => (d_ret = "True" <=> d_args \notin d_passed)

-----------------------------------------------------------------------------
(* Properties of the order of work inside run() (Spec, SpecMulti, SpecSlow) *)

\* the usage loop has dealt with record r in the cycle whose time is nw
UsageProcessed(r, nw, sk, rj, calls) ==
    \/ [kind |-> "usage", record |-> r, now |-> nw] \in sk
    \/ [record |-> r, now |-> nw] \in rj
    \/ [record |-> r, now |-> nw] \in DOMAIN calls

\* C26: within one provider's cycle fetch_costs is called only once fetch_usage
\* has returned or raised and the usage loop is over: every returned record
\* was skipped, rejected, or admitted and applied, or the sink raised for a
\* provider it does not know, which ends the usage stage. While the task
\* waits for fetch_usage no cost record of the cycle has been looked at.
C26_UsageBeforeCost ==
    /\ [](\A p \in Range(providers) :
            tpc[p] = "fetch_usage" =>
                /\ cost_failed = {}
                /\ \A e \in skipped : e.kind = "usage")
    /\ [][\A p \in Range(providers) :
            (tpc[p] # "fetch_costs" /\ tpc'[p] = "fetch_costs") =>
                /\ tpc[p] = "fetch_usage"
                /\ \E o \in UsageOutcomes : UsageStep(p, o)
                /\ \A o \in UsageOutcomes :
                      UsageStep(p, o) =>
                         \/ o.raises
                         \/ \A i \in DOMAIN o.records :
                               UsageProcessed(o.records[i], now, skipped', rejected',
                                              usage_calls')
                         \/ /\ had_error'[p]
                            /\ \E i \in DOMAIN o.records : ~Registered(o.records[i])]_vars

\* the task waits for fetch_costs after a usage stage that skipped one record
\* and applied another
C26_Witness ==
    \E p \in Range(providers) :
        /\ tpc[p] = "fetch_costs"
        /\ ~had_error[p]
        /\ usage_calls # EmptyMap
        /\ skipped # {}

\* C27: in run(), last_scrape is advanced to the cycle's end only once the
\* task of every configured provider for the cycle is over; no provider task
\* is running when last_scrape changes or when the next cycle starts.
C27_JoinedBeforeAdvance ==
    [][/\ (last_scrape' # last_scrape /\ rpc # "start") =>
             /\ AllDone
             /\ last_scrape' = end_time
             /\ tpc' = tpc
       /\ cycle' # cycle =>
             \A p \in Range(providers) : tpc[p] \in {"idle", "done"}]_vars

\* the second cycle of two providers is over, one of them with an error
C27_Witness ==
    /\ Len(providers) = 2
    /\ cycle = 2
    /\ rpc = "wait"
    /\ last_scrape = end_time
    /\ AllDone
    /\ \E p \in Range(providers) : had_error[p]

\* C28: the eviction sweep never overlaps collection. evict_before runs, in
\* the loop body of run(), only when no provider task is in flight; a step
\* that removes tracker entries inserts none and is taken with every task
\* idle or over, and a step that inserts entries is a task's and removes none.
C28_EvictionApartFromCollection ==
    [][/\ CycleStart => \A p \in Range(providers) : tpc[p] \in {"idle", "done"}
       /\ (\E k \in DOMAIN seen : k \notin DOMAIN seen') =>
             /\ \A p \in Range(providers) : tpc[p] \in {"idle", "done"}
             /\ DOMAIN seen' \subseteq DOMAIN seen
             /\ evictions' # evictions
       /\ (\E k \in DOMAIN seen' : k \notin DOMAIN seen) =>
             /\ \E p \in Range(providers) : tpc[p] = "fetch_usage" /\ tpc'[p] = "fetch_costs"
             /\ DOMAIN seen \subseteq DOMAIN seen'
             /\ evictions' = evictions]_vars

\* a key was swept at the start of a cycle and a task of that cycle has put it
\* back while the other provider's task is still in flight
C28_Witness ==
    /\ Len(providers) = 2
    /\ rpc = "gather"
    /\ \E k \in DOMAIN evictions : evictions[k] >= 1 /\ k \in DOMAIN seen
    /\ \E p \in Range(providers) : tpc[p] = "fetch_usage"

\* C29: every cycle fetches the window [last_scrape, last_scrape + interval)
\* and sets last_scrape to the window's end afterwards, so the window of a
\* cycle starts where the window of the cycle before it ended, however late
\* the gathered tasks or the wait were.
C29_WindowsContiguous ==
    [][/\ cycle' # cycle =>
             /\ start_time' = last_scrape
             /\ end_time' = last_scrape + Interval
             /\ cycle >= 1 => start_time' = end_time
       /\ (rpc = "gather" /\ rpc' = "wait") => last_scrape' = end_time
       /\ (rpc \in {"gather", "wait"} /\ rpc' = rpc) => last_scrape' = last_scrape]_vars

\* the second cycle has started more than one interval after its window began
C29_Witness ==
    /\ cycle = 2
    /\ rpc = "gather"
    /\ delays >= 1
    /\ start_time = T0
    /\ end_time = T0 + Interval
    /\ now > start_time + Interval

\* the tasks of the cycle have been started and none has got an answer yet
FetchesBegin ==
    /\ rpc = "gather"
    /\ \A p \in Range(providers) : tpc[p] = "fetch_usage"

\* C30: at the start of every cycle the collector calls
\* evict_before(now - 3600) before any provider fetch of the cycle, so when
\* the fetches of the cycle begin the tracker holds no entry whose
\* window-start is older than now - 3600.
C30_NoOldEntryAtCycleStart ==
    FetchesBegin =>
        \A k \in DOMAIN seen : seen[k] >= now - DEFAULT_EVICTION_AGE_SECONDS

\* the sweep of the second cycle removed one entry and kept another
C30_Witness ==
    /\ FetchesBegin
    /\ cycle = 2
    /\ \E k \in DOMAIN evictions : k \notin DOMAIN seen
    /\ seen # EmptyMap

-----------------------------------------------------------------------------
(* Properties of the end of a provider's task (Spec, SpecMulti) *)

\* the error counter of the stage is higher than when the task started
StageRaised(p, stage) ==
    Get(scrape_errors, <<p, stage>>, 0) #
        (IF stage = "usage" THEN snap[p].usage_errors ELSE snap[p].cost_errors)

\* C31: in a provider cycle set_last_scrape_success is called for the provider
\* if and only if neither the usage stage nor the cost stage raised; a cycle
\* in which a stage raised leaves the last-success timestamps as they were.
C31_SuccessIffNoStageRaised ==
    \A p \in Range(providers) :
        (rpc = "gather" /\ tpc[p] = "done") =>
            IF ~StageRaised(p, "usage") /\ ~StageRaised(p, "cost")
            THEN /\ p \in DOMAIN last_scrape_success
                 /\ last_scrape_success[p] = now
            ELSE last_scrape_success = snap[p].success

\* the first cycle succeeded; in the second only the usage stage raised and
\* the timestamp still reads the first cycle's time
C31_Witness ==
    \E p \in Range(providers) :
        /\ rpc = "gather"
        /\ tpc[p] = "done"
        /\ cycle = 2
        /\ StageRaised(p, "usage")
        /\ ~StageRaised(p, "cost")
        /\ p \in DOMAIN last_scrape_success
        /\ last_scrape_success[p] = T0

\* the usage stage of p's task is over without an exception and without a
\* record: nothing was skipped, rejected or applied in this cycle
UsageReturnedNothing(p) ==
    /\ tpc[p] = "fetch_costs"
    /\ ~fetch_raised[p].usage
    /\ ~had_error[p]
    /\ usage_calls = EmptyMap
    /\ skipped = {}
    /\ rejected = {}

\* C32: a provider cycle in which fetch_usage and fetch_costs both return zero
\* records is a success: neither stage increments a scrape-error counter or
\* changes the tracker or the usage and cost counters, and
\* last_scrape_success is set for the provider.
C32_ZeroRecordsIsSuccess ==
    [][\A p \in Range(providers) :
          /\ UsageStep(p, Returned(<< >>)) =>
                /\ ~had_error'[p]
                /\ scrape_errors' = scrape_errors
                /\ seen' = seen
                /\ requests_total' = requests_total
                /\ tokens_total' = tokens_total
                /\ cost_usd_total' = cost_usd_total
          /\ (UsageReturnedNothing(p) /\ CostStep(p, Returned(<< >>))) =>
                /\ scrape_errors' = scrape_errors
                /\ seen' = seen
                /\ requests_total' = requests_total
                /\ tokens_total' = tokens_total
                /\ cost_usd_total' = cost_usd_total
                /\ last_scrape_success' = Put(last_scrape_success, p, clock)]_vars

\* the second cycle got no record from either fetch and moved the timestamp
\* while the tracker and the counters are those of the first cycle
C32_Witness ==
    \E p \in Range(providers) :
        /\ rpc = "gather"
        /\ tpc[p] = "done"
        /\ cycle = 2
        /\ ~had_error[p]
        /\ ~fetch_raised[p].usage /\ ~fetch_raised[p].cost
        /\ usage_calls = EmptyMap /\ skipped = {} /\ rejected = {} /\ cost_failed = {}
        /\ seen # EmptyMap
        /\ requests_total = snap[p].requests_total
        /\ requests_total # EmptyMap
        /\ p \in DOMAIN last_scrape_success
        /\ last_scrape_success[p] = now

-----------------------------------------------------------------------------
(* Frame of the tracker's admission calls (SpecTracker) *)

\* the tracker key of the call just made
KeyOfCall(op, args) ==
    IF op = "is_new_usage" THEN UsageKeyOfArgs(args) ELSE CostKeyOfArgs(args)

\* C33: tracker entries are removed only by evict_before. A call of
\* is_new_usage, is_new_cost or cost_delta keeps every entry with its
\* window-start, and a call of is_new_usage or is_new_cost that finds its key
\* present answers False and leaves the tracker as it was.
C33_OnlyEvictionRemoves ==
    [][tr_n' = tr_n + 1 =>
          /\ (\E k \in DOMAIN seen : k \notin DOMAIN seen') => tr_op' = "evict_before"
          /\ tr_op' \in {"is_new_usage", "is_new_cost", "cost_delta"} =>
                \A k \in DOMAIN seen : k \in DOMAIN seen' /\ seen'[k] = seen[k]
          /\ (/\ tr_op' \in {"is_new_usage", "is_new_cost"}
              /\ KeyOfCall(tr_op', tr_args') \in DOMAIN seen) =>
                /\ seen' = seen
                /\ tr_ret' = "False"]_vars

\* a usage key and a cost key were admitted and the cost key was passed again
C33_Witness ==
    /\ tr_n = 3
    /\ tr_op = "is_new_cost"
    /\ tr_ret = "False"
    /\ CostKeyOfArgs(tr_args) \in DOMAIN seen
    /\ Cardinality(DOMAIN seen) = 2
    /\ \E a \in tr_called : UsageKeyOfArgs(a) \in DOMAIN seen

-----------------------------------------------------------------------------
(* The duration histogram (SpecMulti) *)

\* C34: observe_scrape_duration is called once per provider per cycle, when
\* both stages have ended, whether they succeeded or raised: a provider whose
\* task of the cycle is done has as many observations as cycles were started,
\* and one less while its task is still at a stage.
C34_DurationOncePerCycle ==
    \A p \in Range(providers) :
        Get(scrape_duration, p, 0) =
            IF tpc[p] \in {"fetch_usage", "fetch_costs"} THEN cycle - 1 ELSE cycle

\* two cycles of two providers are over; in the second both fetches of one
\* provider raised and both fetches of the other returned
C34_Witness ==
    /\ Len(providers) = 2
    /\ cycle = 2
    /\ AllDone
    /\ \E p \in Range(providers) : fetch_raised[p].usage /\ fetch_raised[p].cost
    /\ \E p \in Range(providers) : ~fetch_raised[p].usage /\ ~fetch_raised[p].cost
    /\ \A p \in Range(providers) : Get(scrape_duration, p, 0) = 2

-----------------------------------------------------------------------------
(* The project name cache (SpecResolve) *)

\* C35: for a project id whose name lookup succeeds, _resolve_project_name
\* issues the project request at most once over any number of sequential or
\* concurrent calls and every call returns the same name; the ids "" and
\* "unknown" return "unknown" without a request.
C35_OneRequestPerProject ==
    \A id \in ProjectIds :
        IF id \in {"", "unknown"}
        THEN /\ Get(rs_requests, id, 0) = 0
             /\ \A e \in rs_returns : e.id = id => e.name = "unknown"
        ELSE id \notin rs_failed =>
                /\ Get(rs_requests, id, 0) <= 1
                /\ \A e \in rs_returns : e.id = id => e.name = NameOf(id)

\* every task has resolved the same project, one of them after waiting for
\* the lock, with one request in all
C35_Witness ==
    /\ rs_waited # {}
    /\ "proj-1" \notin rs_failed
    /\ Get(rs_requests, "proj-1", 0) = 1
    /\ \A t \in DOMAIN rs_pc :
          /\ rs_pc[t] = "idle"
          /\ rs_id[t] = "proj-1"
          /\ rs_ret[t] = NameOf("proj-1")
    /\ DOMAIN rs_pc # {}

-----------------------------------------------------------------------------
(* Records skipped as incomplete (Spec) *)

SkippedBefore(kind, r) == [kind |-> kind, record |-> r] \in skipped_before

\* C36 as stated: skipping a usage or cost record whose window is incomplete
\* leaves the tracker unchanged, and a record skipped in an earlier cycle is,
\* when it is reported for the first time with time_frame_end <= now,
\* admitted and applied: a usage record of a registered provider is put in
\* the tracker and counted, a cost record's amount is added to the cost
\* counter.
C36_SkippedThenApplied ==
    [][\A p \in Range(providers) :
          /\ \A r \in UsageUniverse :
                (UsageStep(p, Returned(<<r>>)) /\ Incomplete(r, now)) =>
                    /\ seen' = seen
                    /\ requests_total' = requests_total
          /\ \A r \in CostUniverse :
                (CostStep(p, Returned(<<r>>)) /\ Incomplete(r, now)) =>
                    /\ seen' = seen
                    /\ cost_usd_total' = cost_usd_total
          /\ \A r \in UsageUniverse :
                (/\ UsageStep(p, Returned(<<r>>))
                 /\ SkippedBefore("usage", r)
                 /\ ~Incomplete(r, now)
                 /\ UsageKeyOf(r) \notin DOMAIN seen
                 /\ Registered(r)) =>
                    /\ UsageKeyOf(r) \in DOMAIN seen'
                    /\ requests_total' = Inc(requests_total, UsageLabels(r), r.request_count)
          /\ \A r \in CostUniverse :
                (/\ CostStep(p, Returned(<<r>>))
                 /\ SkippedBefore("cost", r)
                 /\ ~Incomplete(r, now)
                 /\ CostKeyOf(r) \notin DOMAIN cost_reported) =>
                    cost_usd_total' = Inc(cost_usd_total, CostLabels(r), r.amount_usd)]_vars

\* the usage half of C36, which holds
C36_UsageSkippedThenApplied ==
    [][\A p \in Range(providers) :
          /\ \A r \in UsageUniverse :
                (UsageStep(p, Returned(<<r>>)) /\ Incomplete(r, now)) =>
                    /\ seen' = seen
                    /\ requests_total' = requests_total
          /\ \A r \in UsageUniverse :
                (/\ UsageStep(p, Returned(<<r>>))
                 /\ SkippedBefore("usage", r)
                 /\ ~Incomplete(r, now)
                 /\ UsageKeyOf(r) \notin DOMAIN seen
                 /\ Registered(r)) =>
                    /\ UsageKeyOf(r) \in DOMAIN seen'
                    /\ requests_total' = Inc(requests_total, UsageLabels(r), r.request_count)]_vars

-----------------------------------------------------------------------------
(* A usage record whose application raises (Spec) *)

\* the indices of the records of a batch that are finalized and whose key the
\* tracker does not hold
FreshIn(records, nw, sn) ==
    {i \in DOMAIN records :
        ~Incomplete(records[i], nw) /\ UsageKeyOf(records[i]) \notin DOMAIN sn}

\* the first of them
FirstFresh(records, nw, sn) ==
    CHOOSE i \in FreshIn(records, nw, sn) : \A j \in FreshIn(records, nw, sn) : i <= j

\* the usage step on a batch whose first fresh record is of a provider the
\* sink does not know: the key is put in the tracker, nothing is counted, the
\* stage ends with an error, and no record after it is looked at
RaisingRecordEndsStage(p, o) ==
    LET i == FirstFresh(o.records, now, seen)
        r == o.records[i]
    IN  /\ seen' = Put(seen, UsageKeyOf(r), r.time_frame_start)
        /\ requests_total' = requests_total
        /\ tokens_total' = tokens_total
        /\ usage_calls' = usage_calls
        /\ had_error'[p]
        /\ \A j \in DOMAIN o.records :
              (j > i /\ \A h \in 1..(i - 1) : o.records[h] # o.records[j]) =>
                  ~UsageProcessed(o.records[j], now, skipped', rejected', usage_calls')

\* the usage step on one finalized record: it is rejected and nothing changes
ReReportRejected(p, r) ==
    /\ seen' = seen
    /\ [record |-> r, now |-> now] \in rejected'
    /\ requests_total' = requests_total
    /\ tokens_total' = tokens_total
    /\ ~had_error'[p]

\* C37 as stated: when update_usage raises for an admitted record the key
\* stays in the tracker with nothing counted and the rest of the batch is not
\* processed, and whenever a later cycle reports a key that was admitted so,
\* the report is rejected as already seen.
C37_RaisedNeverReadmitted ==
    [][\A p \in Range(providers) :
          /\ \A o \in UsageOutcomes :
                (/\ UsageStep(p, o)
                 /\ ~o.raises
                 /\ FreshIn(o.records, now, seen) # {}
                 /\ ~Registered(o.records[FirstFresh(o.records, now, seen)])) =>
                    RaisingRecordEndsStage(p, o)
          /\ \A r \in UsageUniverse :
                (/\ UsageStep(p, Returned(<<r>>))
                 /\ ~Incomplete(r, now)
                 /\ ~Registered(r)
                 /\ UsageKeyOf(r) \in (DOMAIN seen) \cup (DOMAIN evictions)) =>
                    ReReportRejected(p, r)]_vars

\* C37, amended: when update_usage raises for an admitted record the key stays
\* in the tracker with nothing counted and the rest of the batch is not
\* processed; a later report of the key is rejected as long as the tracker
\* holds the key, and nothing is ever counted for a provider the sink does
\* not know.
C37_RaisedRejectedWhileTracked ==
    /\ [](\A l \in DOMAIN requests_total : l[1] \in provider_metrics)
    /\ [](\A l \in DOMAIN tokens_total : l[1] \in provider_metrics)
    /\ [][\A p \in Range(providers) :
            /\ \A o \in UsageOutcomes :
                  (/\ UsageStep(p, o)
                   /\ ~o.raises
                   /\ FreshIn(o.records, now, seen) # {}
                   /\ ~Registered(o.records[FirstFresh(o.records, now, seen)])) =>
                      RaisingRecordEndsStage(p, o)
            /\ \A r \in UsageUniverse :
                  (/\ UsageStep(p, Returned(<<r>>))
                   /\ ~Incomplete(r, now)
                   /\ ~Registered(r)
                   /\ UsageKeyOf(r) \in DOMAIN seen) =>
                      ReReportRejected(p, r)]_vars

\* the provider is not registered; the first cycle admitted a record whose
\* application raised, and the second cycle has rejected its re-report
C37_Witness ==
    \E p \in Range(providers) :
        /\ provider_metrics = {}
        /\ cycle = 2
        /\ tpc[p] = "fetch_costs"
        /\ ~had_error[p]
        /\ Get(scrape_errors, <<p, "usage">>, 0) = 1
        /\ \E e \in rejected : UsageKeyOf(e.record) \in DOMAIN seen
        /\ requests_total = EmptyMap

-----------------------------------------------------------------------------
(* The fetched window and the clock (SpecSlow) *)

\* C38: in every cycle of run() the end of the fetched window is at or before
\* the cycle's now: the first window ends at the time run() was entered and
\* each later cycle comes after a wait of the full interval, so no window
\* reaches into the future.
C38_WindowNotInFuture ==
    cycle >= 1 =>
        /\ end_time <= now
        /\ end_time = start_time + Interval
        /\ now <= clock

\* the second cycle started exactly one interval after the first: its window
\* ends at its now
C38_Witness ==
    /\ cycle = 2
    /\ rpc = "gather"
    /\ delays = 0
    /\ end_time = now
    /\ start_time = T0

-----------------------------------------------------------------------------
(* RecordTracker.is_new_usage and DeduplicationStore.is_new (SpecPair) *)

\* C39: with no evict_before call, RecordTracker.is_new_usage and
\* DeduplicationStore.is_new given the same sequence of (provider, model,
\* project, api_key, start) calls return the same boolean at every call and
\* hold the same set of keys after it.
C39_TrackerMatchesStore ==
    /\ tr_n = d_n
    /\ tr_ret = d_ret
    /\ DOMAIN seen = d_seen
    /\ tr_n > 0 => tr_ret \in {"True", "False"}

\* the latest call has values no earlier call had, both report it seen, and
\* both hold one key after two calls: the two calls' keys are the same string
C39_Witness ==
    /\ tr_n = 2
    /\ d_args \notin d_passed
    /\ tr_ret = "False"
    /\ d_ret = "False"
    /\ Cardinality(d_seen) = 1
    /\ Cardinality(DOMAIN seen) = 1

====
